---- MODULE Spec2Model ----
(***************************************************************************)
(* Model of the Snatchbase ingestion pipeline:                             *)
(*   - ZipIngestionService.process_zip_file / _process_device              *)
(*     (backend/app/services/zip_ingestion.py) running against a shared    *)
(*     store through one SQLAlchemy session per run;                       *)
(*   - PasswordArchiveManager (backend/app/services/                       *)
(*     password_archive_manager.py), its pending set and persisted file.   *)
(*   - the Telegram handlers that feed the manager (telegram/handlers.py,  *)
(*     telegram/password_commands.py);                                     *)
(*   - the pure parsers and classifiers: is_password_protected, the        *)
(*     extraction result, the credential parsers, detect_card_brand.       *)
(* SpecIngest drives the ingestion runs, SpecPwd the manager, SpecThreads  *)
(* two threads inside the manager, SpecBot the Telegram handlers and       *)
(* SpecCalls one call of a pure function on each of its inputs.            *)
(***************************************************************************)
EXTENDS Integers, Sequences, FiniteSets, TLC

VARIABLES
    clock,              \* datetime.now(), as a logical counter
    uploads,            \* store: uploads table, upload_id -> row
    devices,            \* store: devices table, device_id -> row
    rows,               \* store: committed child rows (credentials, files)
    run,                \* per worker: locals and session of process_zip_file
    pending_archives,   \* PasswordArchiveManager.pending_archives
    pending_file,       \* contents of PENDING_ARCHIVES_FILE
    common_passwords,   \* PasswordArchiveManager.common_passwords
    disk,               \* archive paths that exist on disk
    lastOp,             \* last manager call and its return value
    thread,             \* per thread: position and locals inside a manager call
    call                \* a parser or classifier call: function, argument, result

vars == <<clock, uploads, devices, rows, run,
          pending_archives, pending_file, common_passwords, disk, lastOp,
          thread, call>>

ingestVars == <<uploads, devices, rows, run, thread, call>>
pwdVars == <<pending_archives, pending_file, common_passwords, disk, lastOp,
             thread, call>>

----------------------------------------------------------------------------
(* Bounds *)

MaxRuns == 3        \* process_zip_file runs started in one behaviour
MaxOps == 4         \* manager calls in one behaviour

Workers == {"w1", "w2"}

----------------------------------------------------------------------------
(* Archives handed to process_zip_file.  A group is one device folder of   *)
(* the archive, and one entry of the device_map group_by_device makes of   *)
(* the folders: a device display name and what its files hold.  bad = one  *)
(* of its child rows is rejected by the store when the per-device commit   *)
(* flushes it.                                                             *)

Group(b, c, f, isBad) ==
    [name |-> [base |-> b, variant |-> "plain"],
     creds |-> c, files |-> f, bad |-> isBad]

\* the same device folder under a second display name: the two names
\* normalise to one identity, hence to one device hash
Repeated(g) == [g EXCEPT !.name.variant = "repeated"]

Archives ==
    [zip_path \in {"a.zip", "b.zip", "c.zip", "d.zip", "e.zip"} |->
        CASE zip_path = "a.zip" ->
                [kind |-> "ok",
                 groups |-> <<Group(1, 2, 2, FALSE), Group(2, 1, 1, TRUE),
                              Group(3, 1, 1, FALSE)>>]
          [] zip_path = "b.zip" ->
                [kind |-> "ok",
                 groups |-> <<Group(3, 1, 1, FALSE), Group(1, 2, 2, FALSE)>>]
          [] zip_path = "c.zip" ->
                [kind |-> "corrupt", groups |-> <<>>]
          [] zip_path = "d.zip" ->
                [kind |-> "ok",
                 groups |-> <<Group(5, 1, 1, FALSE),
                              Repeated(Group(5, 1, 1, FALSE))>>]
          [] OTHER ->
                [kind |-> "encrypted", groups |-> <<Group(4, 1, 2, FALSE)>>]]

ZipPaths == DOMAIN Archives

\* the normalised device display name: case and whitespace variants of a
\* name are one name
NormalizedName(device_name) == device_name.base

\* group_by_device: the device folders of the archive, folders whose
\* normalised names are equal merged into one group
RECURSIVE MergeFolders(_, _)
MergeFolders(folders, device_map) ==
    IF folders = <<>> THEN device_map
    ELSE LET g == Head(folders)
             same == { k \in DOMAIN device_map :
                         NormalizedName(device_map[k].name) = NormalizedName(g.name) }
         IN IF same = {}
            THEN MergeFolders(Tail(folders), Append(device_map, g))
            ELSE LET k == CHOOSE k \in same : TRUE IN
                 MergeFolders(Tail(folders),
                     [device_map EXCEPT ![k] =
                         [@ EXCEPT !.creds = @ + g.creds,
                                   !.files = @ + g.files,
                                   !.bad = @ \/ g.bad]])

GroupWithoutMerge(folders) == folders
group_by_device(folders) == MergeFolders(folders, <<>>)

----------------------------------------------------------------------------
(* Store rows and session *)

EmptyTable == [k \in {} |-> 0]

compute_device_hash(device_name) == device_name.base

DeviceId(device_hash) == <<"dev", device_hash>>

NewUpload(upload_batch, filename) ==
    [upload_id |-> upload_batch, filename |-> filename,
     status |-> "processing",
     devices_found |-> 0, devices_processed |-> 0, devices_skipped |-> 0,
     total_credentials |-> 0, total_files |-> 0,
     error_message |-> "", created_at |-> upload_batch, completed_at |-> 0]

NoUpload == [NewUpload(0, "") EXCEPT !.status = "none"]

CleanSession == [active |-> TRUE, new_devices |-> {}, new_rows |-> {}]

IdleRun ==
    [pc |-> "idle", zip_path |-> "", upload_batch |-> 0, upload |-> NoUpload,
     device_map |-> <<>>, existing_hashes |-> {}, i |-> 0,
     devices_processed |-> 0, devices_skipped |-> 0,
     total_credentials |-> 0, total_files |-> 0,
     session |-> CleanSession, error |-> ""]

\* str(e) of the exceptions the run can meet
ErrorMessage(e) ==
    CASE e = "BadZipFile" -> "File is not a zip file"
      [] e = "IntegrityError" -> "duplicate key value violates unique constraint"
      [] e = "DataError" -> "value too long for type character varying"
      [] OTHER -> ""

\* _get_existing_device_hashes: hashes of device_map's names found in the store
ExistingStub(devs, device_map) == {}
ExistingDeviceHashes(devs, device_map) ==
    {h \in {compute_device_hash(device_map[k].name) : k \in DOMAIN device_map} :
        \E id \in DOMAIN devs : devs[id].device_name_hash = h}

\* zip_file.read(entry) of an encrypted entry raises RuntimeError, which every
\* reader in _process_device catches: the parsers then see no content.
ReadableContent(kind) == kind # "encrypted"

\* _process_device: the Device row and the child rows it adds to the session
DeviceRowUnbatched(g, upload_batch, kind) ==
    [device_id |-> DeviceId(compute_device_hash(g.name)),
     device_name |-> g.name,
     device_name_hash |-> compute_device_hash(g.name),
     upload_batch |-> 0,
     total_files |-> g.files,
     total_credentials |-> IF ReadableContent(kind) THEN g.creds ELSE 0]
DeviceRow(g, upload_batch, kind) ==
    [device_id |-> DeviceId(compute_device_hash(g.name)),
     device_name |-> g.name,
     device_name_hash |-> compute_device_hash(g.name),
     upload_batch |-> upload_batch,
     total_files |-> g.files,
     total_credentials |-> IF ReadableContent(kind) THEN g.creds ELSE 0]

ChildRows(g, kind) ==
    LET id == DeviceId(compute_device_hash(g.name)) IN
      {[device_id |-> id, table |-> "credentials", n |-> k, content |-> TRUE] :
          k \in 1..(IF ReadableContent(kind) THEN g.creds ELSE 0)}
      \cup
      {[device_id |-> id, table |-> "files", n |-> k,
        content |-> ReadableContent(kind)] : k \in 1..g.files}

\* db.commit() of the per-device transaction: flushed rows become durable
CommitDevicesDeferred(devs, session) == devs
CommitDevices(devs, session) ==
    [id \in DOMAIN devs \cup {d.device_id : d \in session.new_devices} |->
        IF id \in DOMAIN devs THEN devs[id]
        ELSE CHOOSE d \in session.new_devices : d.device_id = id]

CommitRowsLater(rs, session) == rs
CommitRows(rs, session) == rs \cup session.new_rows

\* except-branch of process_zip_file: upload.status / upload.error_message
MarkFailedNoStatus(upload, e) == [upload EXCEPT !.error_message = ErrorMessage(e)]
MarkFailed(upload, e) ==
    [upload EXCEPT !.status = "failed", !.error_message = ErrorMessage(e)]

\* db.commit() of the Upload row: a session whose flush failed has not been
\* rolled back and refuses the commit (PendingRollbackError), nothing is written
CommitUpload(ups, session, upload) ==
    IF session.active THEN [ups EXCEPT ![upload.upload_id] = upload] ELSE ups

----------------------------------------------------------------------------
(* process_zip_file, one worker w *)

CurGroup(r) == r.device_map[r.i]

\* lines 79-88: batch id, Upload row created and committed
StartRun(w, zip_path) ==
    /\ run[w].pc = "idle"
    /\ Cardinality(DOMAIN uploads) < MaxRuns
    /\ clock' = clock + 1
    /\ LET b == clock' IN
        /\ uploads' = (b :> NewUpload(b, zip_path)) @@ uploads
        /\ run' = [run EXCEPT ![w] =
                      [IdleRun EXCEPT !.pc = "created", !.zip_path = zip_path,
                                      !.upload_batch = b,
                                      !.upload = NewUpload(b, zip_path)]]
    /\ UNCHANGED <<devices, rows>>
    /\ UNCHANGED pwdVars

\* the except-branch (lines 160-165) entered with exception e
Failed(w, r, e) ==
    LET u == MarkFailed(r.upload, e) IN
      /\ uploads' = CommitUpload(uploads, r.session, u)
      /\ run' = [run EXCEPT ![w] =
                    [r EXCEPT !.pc = "raised", !.upload = u, !.error = e]]

\* lines 92-99: archive opens, devices grouped, dedup query
OpenArchive(w) ==
    LET r == run[w] IN
      /\ r.pc = "created"
      /\ Archives[r.zip_path].kind # "corrupt"
      /\ run' = [run EXCEPT ![w] =
            [r EXCEPT !.pc = "loop",
                      !.device_map = group_by_device(Archives[r.zip_path].groups),
                      !.existing_hashes =
                          ExistingDeviceHashes(devices,
                              group_by_device(Archives[r.zip_path].groups)),
                      !.i = 1]]
      /\ UNCHANGED <<clock, uploads, devices, rows>>
      /\ UNCHANGED pwdVars

\* line 92 raises BadZipFile
OpenArchiveFails(w) ==
    LET r == run[w] IN
      /\ r.pc = "created"
      /\ Archives[r.zip_path].kind = "corrupt"
      /\ Failed(w, r, "BadZipFile")
      /\ UNCHANGED <<clock, devices, rows>>
      /\ UNCHANGED pwdVars

\* lines 107-114
SkipDevice(w) ==
    LET r == run[w] IN
      /\ r.pc = "loop"
      /\ r.i <= Len(r.device_map)
      /\ compute_device_hash(CurGroup(r).name) \in r.existing_hashes
      /\ run' = [run EXCEPT ![w] =
            [r EXCEPT !.devices_skipped = @ + 1, !.i = @ + 1]]
      /\ UNCHANGED <<clock, uploads, devices, rows>>
      /\ UNCHANGED pwdVars

\* the INSERT of db.flush() (line 339) waits for a concurrent transaction
\* that holds an uncommitted row with the same unique device_id
InsertBlocked(w, id) ==
    \E o \in Workers \ {w} :
        \E d \in run[o].session.new_devices : d.device_id = id

\* lines 116-130: _process_device flushes the Device row, adds the children
ProcessDevice(w) ==
    LET r == run[w]
        g == CurGroup(r)
        kind == Archives[r.zip_path].kind
        d == DeviceRow(g, r.upload_batch, kind)
    IN
      /\ r.pc = "loop"
      /\ r.i <= Len(r.device_map)
      /\ compute_device_hash(g.name) \notin r.existing_hashes
      /\ ~InsertBlocked(w, d.device_id)
      /\ d.device_id \notin DOMAIN devices
      /\ run' = [run EXCEPT ![w] =
            [r EXCEPT !.pc = "flushed",
                      !.session = [active |-> TRUE, new_devices |-> {d},
                                   new_rows |-> ChildRows(g, kind)],
                      !.devices_processed = @ + 1,
                      !.total_credentials = @ + d.total_credentials,
                      !.total_files = @ + g.files]]
      /\ UNCHANGED <<clock, uploads, devices, rows>>
      /\ UNCHANGED pwdVars

\* line 339 raises IntegrityError: device_id is already in the store
ProcessDeviceFails(w) ==
    LET r == run[w]
        g == CurGroup(r)
        id == DeviceId(compute_device_hash(g.name))
    IN
      /\ r.pc = "loop"
      /\ r.i <= Len(r.device_map)
      /\ compute_device_hash(g.name) \notin r.existing_hashes
      /\ ~InsertBlocked(w, id)
      /\ id \in DOMAIN devices
      /\ Failed(w, [r EXCEPT !.session = [active |-> FALSE, new_devices |-> {},
                                          new_rows |-> {}]],
                "IntegrityError")
      /\ UNCHANGED <<clock, devices, rows>>
      /\ UNCHANGED pwdVars

\* line 133: per-device commit
CommitDevice(w) ==
    LET r == run[w] IN
      /\ r.pc = "flushed"
      /\ ~CurGroup(r).bad
      /\ devices' = CommitDevices(devices, r.session)
      /\ rows' = CommitRows(rows, r.session)
      /\ run' = [run EXCEPT ![w] =
            [r EXCEPT !.pc = "loop", !.session = CleanSession, !.i = @ + 1]]
      /\ UNCHANGED <<clock, uploads>>
      /\ UNCHANGED pwdVars

\* line 133 raises while flushing the child rows: the transaction is undone
CommitDeviceFails(w) ==
    LET r == run[w] IN
      /\ r.pc = "flushed"
      /\ CurGroup(r).bad
      /\ Failed(w, [r EXCEPT !.session = [active |-> FALSE, new_devices |-> {},
                                          new_rows |-> {}]],
                "DataError")
      /\ UNCHANGED <<clock, devices, rows>>
      /\ UNCHANGED pwdVars

\* lines 136-158: summary written to the Upload row, result returned
Complete(w) ==
    LET r == run[w]
        u == [r.upload EXCEPT !.status = "completed",
                              !.devices_found = Len(r.device_map),
                              !.devices_processed = r.devices_processed,
                              !.devices_skipped = r.devices_skipped,
                              !.total_credentials = r.total_credentials,
                              !.total_files = r.total_files,
                              !.completed_at = clock']
    IN
      /\ r.pc = "loop"
      /\ r.i > Len(r.device_map)
      /\ clock' = clock + 1
      /\ uploads' = CommitUpload(uploads, r.session, u)
      /\ run' = [run EXCEPT ![w] = [r EXCEPT !.pc = "done", !.upload = u]]
      /\ UNCHANGED <<devices, rows>>
      /\ UNCHANGED pwdVars

\* the callers' finally: db.close(); the worker is free for the next archive
CloseSession(w) ==
    /\ run[w].pc \in {"done", "raised"}
    /\ run' = [run EXCEPT ![w] = IdleRun]
    /\ UNCHANGED <<clock, uploads, devices, rows>>
    /\ UNCHANGED pwdVars

----------------------------------------------------------------------------
(* PasswordArchiveManager *)

\* archives that can appear on disk: suffix, first-megabyte content, password
ArchiveFiles ==
    [path \in {"/up/x.zip", "/up/y.rar", "/up/z.zip"} |->
        CASE path = "/up/x.zip" ->
                [file_name |-> "x.zip", ext |-> ".zip", head |-> 1,
                 password |-> "s3cret"]
          [] path = "/up/y.rar" ->
                [file_name |-> "y.rar", ext |-> ".rar", head |-> 2,
                 password |-> "infected"]
          [] OTHER ->
                [file_name |-> "z.zip", ext |-> ".zip", head |-> 3,
                 password |-> "s3cret"]]

Paths == DOMAIN ArchiveFiles

Passwords == {"s3cret", "infected", "nope"}

\* max_age_days arguments of cleanup_old_pending, in clock ticks
MaxAgeDays == {1, 2}

\* _load_common_passwords (first entries of the list)
DefaultCommonPasswords == <<"infected", "123">>

\* _get_file_hash: digest of the first megabyte
GetFileHash(path) == <<"sha256", ArchiveFiles[path].head>>

Digests == {GetFileHash(p) : p \in Paths} \cup {<<"sha256", 0>>}

\* PendingArchive(...) as built by add_pending_archive
NewPendingArchive(path, source, now) ==
    [file_path |-> path, file_name |-> ArchiveFiles[path].file_name,
     file_hash |-> GetFileHash(path), detected_at |-> <<now>>,
     source |-> source, chat_id |-> <<>>, message_id |-> <<>>,
     attempts |-> 0, last_attempt |-> <<>>, status |-> "pending"]

\* _save_pending_archives: {k: asdict(v)} dumped as JSON
SavePendingArchives(pa) ==
    [k \in DOMAIN pa |->
        [file_path |-> pa[k].file_path, file_name |-> pa[k].file_name,
         file_hash |-> pa[k].file_hash, detected_at |-> pa[k].detected_at,
         source |-> pa[k].source, chat_id |-> pa[k].chat_id,
         message_id |-> pa[k].message_id, attempts |-> pa[k].attempts,
         last_attempt |-> pa[k].last_attempt, status |-> pa[k].status]]

\* _load_pending_archives: PendingArchive(**archive_data) per entry
LoadWithoutAttempts(file) ==
    [k \in DOMAIN file |->
        [file_path |-> file[k].file_path, file_name |-> file[k].file_name,
         file_hash |-> file[k].file_hash, detected_at |-> file[k].detected_at,
         source |-> file[k].source, chat_id |-> file[k].chat_id,
         message_id |-> file[k].message_id, attempts |-> 0,
         last_attempt |-> <<>>, status |-> file[k].status]]
LoadPendingArchives(file) ==
    [k \in DOMAIN file |->
        [file_path |-> file[k].file_path, file_name |-> file[k].file_name,
         file_hash |-> file[k].file_hash, detected_at |-> file[k].detected_at,
         source |-> file[k].source, chat_id |-> file[k].chat_id,
         message_id |-> file[k].message_id, attempts |-> file[k].attempts,
         last_attempt |-> file[k].last_attempt, status |-> file[k].status]]

Pop(pa, file_hash) == [k \in DOMAIN pa \ {file_hash} |-> pa[k]]

Put(pa, file_hash, archive) ==
    [k \in DOMAIN pa \cup {file_hash} |->
        IF k = file_hash THEN archive ELSE pa[k]]

\* lines 338-342: attempt counted, record marked processing
BeginAttemptNoCount(pa, file_hash, now) ==
    [pa EXCEPT ![file_hash].last_attempt = <<now>>,
               ![file_hash].status = "processing"]
BeginAttempt(pa, file_hash, now) ==
    [pa EXCEPT ![file_hash].attempts = @ + 1,
               ![file_hash].last_attempt = <<now>>,
               ![file_hash].status = "processing"]

\* lines 361-363: status 'extracted', record popped
ExtractedKept(pa, file_hash) == [pa EXCEPT ![file_hash].status = "extracted"]
Extracted(pa, file_hash) == Pop(pa, file_hash)

\* lines 373, 379: failed attempt goes back to pending
AttemptFailed(pa, file_hash) == [pa EXCEPT ![file_hash].status = "pending"]

\* lines 366-367
LearnAlways(cp, password) == Append(cp, password)
LearnPassword(cp, password) ==
    IF \E k \in DOMAIN cp : cp[k] = password THEN cp ELSE Append(cp, password)

\* _try_zip_password / _try_rar_password: the test read or the tool's test
\* run succeeds with the archive's password only
TryPassword(path, password) == password = ArchiveFiles[path].password

\* try_common_passwords: the first password of the list that opens the archive,
\* None (<<>>) when none does or the suffix is not .zip/.rar/.7z
try_common_passwords(cp, path) ==
    LET opens == {k \in DOMAIN cp :
                     /\ ArchiveFiles[path].ext \in {".zip", ".rar", ".7z"}
                     /\ TryPassword(path, cp[k])}
    IN IF opens = {} THEN <<>>
       ELSE <<cp[CHOOSE k \in opens : \A j \in opens : k <= j]>>

\* _extract_zip / _extract_rar: the results the extractor can give for a
\* password.  A wrong password on the unrar path is reported through stderr,
\* which may or may not hold the words 'wrong password'.
ExtractResults(path, password) ==
    LET f == ArchiveFiles[path] IN
      IF f.ext \notin {".zip", ".rar", ".7z"}
      THEN {[success |-> FALSE, message |-> "Unsupported format"]}
      ELSE IF password = f.password
      THEN {[success |-> TRUE, message |-> "Extracted files"]}
      ELSE IF f.ext = ".zip"
      THEN {[success |-> FALSE, message |-> "Wrong password"]}
      ELSE {[success |-> FALSE, message |-> "Wrong password"],
            [success |-> FALSE, message |-> "The specified password is incorrect."]}

NoOp ==
    [seq |-> 0, op |-> "none", file_hash |-> <<"sha256", 0>>, password |-> "",
     result |-> [success |-> FALSE, message |-> ""]]

Called(op, file_hash, password, result) ==
    lastOp' = [seq |-> lastOp.seq + 1, op |-> op, file_hash |-> file_hash,
               password |-> password, result |-> result]

\* an archive file arrives in, or is removed from, the download directory
DownloadFile(path) ==
    /\ path \notin disk
    /\ disk' = disk \cup {path}
    /\ UNCHANGED <<clock, pending_archives, pending_file, common_passwords, lastOp>>
    /\ UNCHANGED ingestVars

DeleteFile(path) ==
    /\ path \in disk
    /\ disk' = disk \ {path}
    /\ UNCHANGED <<clock, pending_archives, pending_file, common_passwords, lastOp>>
    /\ UNCHANGED ingestVars

\* add_pending_archive (lines 274-304)
AddPendingArchive(path, source) ==
    /\ lastOp.seq < MaxOps
    /\ path \in disk
    /\ clock' = clock + 1
    /\ pending_archives' =
          Put(pending_archives, GetFileHash(path),
              NewPendingArchive(path, source, clock'))
    /\ pending_file' = SavePendingArchives(pending_archives')
    /\ Called("add", GetFileHash(path), "", [success |-> TRUE, message |-> ""])
    /\ UNCHANGED <<common_passwords, disk>>
    /\ UNCHANGED ingestVars

ExtractNotFoundLearns(file_hash, password) ==
    /\ lastOp.seq < MaxOps
    /\ file_hash \notin DOMAIN pending_archives
    /\ common_passwords' = LearnPassword(common_passwords, password)
    /\ Called("extract", file_hash, password,
              [success |-> FALSE, message |-> "Archive not found"])
    /\ UNCHANGED <<clock, pending_archives, pending_file, disk>>
    /\ UNCHANGED ingestVars

\* extract_with_password, digest unknown (lines 328-330)
ExtractNotFound(file_hash, password) ==
    /\ lastOp.seq < MaxOps
    /\ file_hash \notin DOMAIN pending_archives
    /\ Called("extract", file_hash, password,
              [success |-> FALSE, message |-> "Archive not found"])
    /\ UNCHANGED <<clock, pending_archives, pending_file, common_passwords, disk>>
    /\ UNCHANGED ingestVars

\* extract_with_password, archive file gone (lines 332-336)
ExtractFileMissing(file_hash, password) ==
    /\ lastOp.seq < MaxOps
    /\ file_hash \in DOMAIN pending_archives
    /\ pending_archives[file_hash].file_path \notin disk
    /\ pending_archives' = Pop(pending_archives, file_hash)
    /\ pending_file' = SavePendingArchives(pending_archives')
    /\ Called("extract", file_hash, password,
              [success |-> FALSE, message |-> "Archive file no longer exists"])
    /\ UNCHANGED <<clock, common_passwords, disk>>
    /\ UNCHANGED ingestVars

\* extract_with_password, attempt made (lines 338-381)
ExtractWithPassword(file_hash, password) ==
    /\ lastOp.seq < MaxOps
    /\ file_hash \in DOMAIN pending_archives
    /\ pending_archives[file_hash].file_path \in disk
    /\ clock' = clock + 1
    /\ \E result \in ExtractResults(pending_archives[file_hash].file_path, password) :
        LET begun == BeginAttempt(pending_archives, file_hash, clock') IN
          /\ IF result.success
             THEN /\ pending_archives' = Extracted(begun, file_hash)
                  /\ common_passwords' = LearnPassword(common_passwords, password)
             ELSE /\ pending_archives' = AttemptFailed(begun, file_hash)
                  /\ UNCHANGED common_passwords
          /\ pending_file' = SavePendingArchives(pending_archives')
          /\ Called("extract", file_hash, password, result)
    /\ UNCHANGED disk
    /\ UNCHANGED ingestVars

\* remove_pending (lines 456-460)
RemovePending(file_hash) ==
    /\ lastOp.seq < MaxOps
    /\ file_hash \in DOMAIN pending_archives
    /\ pending_archives' = Pop(pending_archives, file_hash)
    /\ pending_file' = SavePendingArchives(pending_archives')
    /\ Called("remove", file_hash, "", [success |-> TRUE, message |-> ""])
    /\ UNCHANGED <<clock, common_passwords, disk>>
    /\ UNCHANGED ingestVars

\* a caller asks try_common_passwords about an archive on disk; the recorded
\* password is the one returned, '' for None
TryCommonPasswords(path) ==
    LET found == try_common_passwords(common_passwords, path) IN
      /\ lastOp.seq < MaxOps
      /\ path \in disk
      /\ Called("try", GetFileHash(path),
                IF found = <<>> THEN "" ELSE found[1],
                [success |-> found # <<>>, message |-> ""])
      /\ UNCHANGED <<clock, pending_archives, pending_file, common_passwords, disk>>
      /\ UNCHANGED ingestVars

\* addpassword_command (password_commands.py lines 317-324)
AddPasswordCommand(password) ==
    /\ lastOp.seq < MaxOps
    /\ common_passwords' =
          IF \E k \in DOMAIN common_passwords : common_passwords[k] = password
          THEN common_passwords
          ELSE Append(common_passwords, password)
    /\ Called("addpassword", <<"sha256", 0>>, password,
              [success |-> TRUE, message |-> ""])
    /\ UNCHANGED <<clock, pending_archives, pending_file, disk>>
    /\ UNCHANGED ingestVars

\* cleanup_old_pending: digests detected before the cutoff (lines 464-470)
OldPending(pa, cutoff) == {h \in DOMAIN pa : pa[h].detected_at[1] < cutoff}

\* cleanup_old_pending saves only when it removed something (lines 475-476)
SaveNever(file, pa, to_remove) == file
SaveIfRemoved(file, pa, to_remove) ==
    IF to_remove # {} THEN SavePendingArchives(pa) ELSE file

\* cleanup_old_pending (lines 462-477); the call returns nothing, the
\* recorded result tells whether the 'Cleaned up' line was logged
CleanupOldPending(max_age_days) ==
    /\ lastOp.seq < MaxOps
    /\ clock' = clock + 1
    /\ LET to_remove == OldPending(pending_archives, clock' - max_age_days) IN
        /\ pending_archives' =
              [k \in DOMAIN pending_archives \ to_remove |-> pending_archives[k]]
        /\ pending_file' = SaveIfRemoved(pending_file, pending_archives', to_remove)
        /\ Called("cleanup", <<"sha256", 0>>, "",
                  [success |-> to_remove # {}, message |-> ""])
    /\ UNCHANGED <<common_passwords, disk>>
    /\ UNCHANGED ingestVars

\* process restart: __init__ reloads the file and the built-in password list
Restart ==
    /\ lastOp.seq < MaxOps
    /\ pending_archives' = LoadPendingArchives(pending_file)
    /\ common_passwords' = DefaultCommonPasswords
    /\ Called("restart", <<"sha256", 0>>, "", [success |-> TRUE, message |-> ""])
    /\ UNCHANGED <<clock, pending_file, disk>>
    /\ UNCHANGED ingestVars

----------------------------------------------------------------------------
(* PasswordArchiveManager called from two threads of one process.  No       *)
(* method takes _lock (it guards only __new__), so a thread can be          *)
(* preempted between the statements of a call: here between building the    *)
(* snapshot and writing the file in _save_pending_archives (lines 95-97)    *)
(* and while the extractor runs (line 351).                                 *)

Threads == {"t1", "t2"}

MaxCalls == 2       \* manager calls per thread in one behaviour

IdleThread ==
    [pc |-> "idle", next |-> "idle", file_hash |-> <<"sha256", 0>>,
     file_path |-> "", password |-> "", archive |-> <<>>, data |-> EmptyTable,
     calls |-> 0, adds |-> 0, added |-> {}, extracts |-> 0, removes |-> 0,
     opened |-> 0]

\* _save_pending_archives line 95: data = {k: asdict(v) ...}
Snapshot(th, pa, next) ==
    [th EXCEPT !.pc = "write", !.data = SavePendingArchives(pa), !.next = next]

\* _save_pending_archives lines 96-97: the snapshot is written to the file
ThreadWriteFile(t) ==
    /\ thread[t].pc = "write"
    /\ pending_file' = thread[t].data
    /\ thread' = [thread EXCEPT ![t].pc = thread[t].next]
    /\ UNCHANGED <<clock, pending_archives, common_passwords, disk, lastOp, call>>
    /\ UNCHANGED <<uploads, devices, rows, run>>

\* add_pending_archive up to line 95 of the save
ThreadAdd(t, path) ==
    /\ thread[t].pc = "idle"
    /\ thread[t].calls < MaxCalls
    /\ path \in disk
    /\ clock' = clock + 1
    /\ pending_archives' =
          Put(pending_archives, GetFileHash(path),
              NewPendingArchive(path, "upload", clock'))
    /\ thread' = [thread EXCEPT ![t] =
          Snapshot([thread[t] EXCEPT !.calls = @ + 1, !.adds = @ + 1,
                                     !.added = @ \cup {GetFileHash(path)}],
                   pending_archives', "idle")]
    /\ UNCHANGED <<pending_file, common_passwords, disk, lastOp, call>>
    /\ UNCHANGED <<uploads, devices, rows, run>>

\* extract_with_password lines 328-342, up to line 95 of the save; the local
\* `archive` keeps the record object, known here by its detected_at
ThreadExtractBegin(t, file_hash, password) ==
    /\ thread[t].pc = "idle"
    /\ thread[t].calls < MaxCalls
    /\ file_hash \in DOMAIN pending_archives
    /\ pending_archives[file_hash].file_path \in disk
    /\ clock' = clock + 1
    /\ pending_archives' = BeginAttempt(pending_archives, file_hash, clock')
    /\ thread' = [thread EXCEPT ![t] =
          Snapshot([thread[t] EXCEPT
                        !.calls = @ + 1, !.extracts = @ + 1,
                        !.file_hash = file_hash, !.password = password,
                        !.file_path = pending_archives[file_hash].file_path,
                        !.archive = pending_archives[file_hash].detected_at],
                   pending_archives', "extracting")]
    /\ UNCHANGED <<pending_file, common_passwords, disk, lastOp, call>>
    /\ UNCHANGED <<uploads, devices, rows, run>>

\* extract_with_password lines 350-381 once the extractor has returned, up to
\* line 95 of the save.  On failure the status goes to the held object, which
\* is the set's record only if no add_pending_archive replaced it meanwhile.
ThreadExtractEnd(t) ==
    LET th == thread[t]
        h == th.file_hash
    IN
      /\ th.pc = "extracting"
      /\ \E result \in ExtractResults(th.file_path, th.password) :
          IF result.success
          THEN /\ pending_archives' = Pop(pending_archives, h)
               /\ common_passwords' = LearnPassword(common_passwords, th.password)
               /\ thread' = [thread EXCEPT ![t] =
                     Snapshot([th EXCEPT !.opened = @ + 1],
                              pending_archives', "idle")]
          ELSE /\ pending_archives' =
                     IF /\ h \in DOMAIN pending_archives
                        /\ pending_archives[h].detected_at = th.archive
                     THEN AttemptFailed(pending_archives, h)
                     ELSE pending_archives
               /\ UNCHANGED common_passwords
               /\ thread' = [thread EXCEPT ![t] =
                     Snapshot(th, pending_archives', "idle")]
      /\ UNCHANGED <<clock, pending_file, disk, lastOp, call>>
      /\ UNCHANGED <<uploads, devices, rows, run>>

\* remove_pending up to line 95 of the save
ThreadRemove(t, file_hash) ==
    /\ thread[t].pc = "idle"
    /\ thread[t].calls < MaxCalls
    /\ file_hash \in DOMAIN pending_archives
    /\ pending_archives' = Pop(pending_archives, file_hash)
    /\ thread' = [thread EXCEPT ![t] =
          Snapshot([thread[t] EXCEPT !.calls = @ + 1, !.removes = @ + 1],
                   pending_archives', "idle")]
    /\ UNCHANGED <<clock, pending_file, common_passwords, disk, lastOp, call>>
    /\ UNCHANGED <<uploads, devices, rows, run>>

\* cleanup_old_pending up to line 95 of the save
ThreadCleanup(t, max_age_days) ==
    LET to_remove == OldPending(pending_archives, clock' - max_age_days) IN
      /\ thread[t].pc = "idle"
      /\ thread[t].calls < MaxCalls
      /\ clock' = clock + 1
      /\ pending_archives' =
            [k \in DOMAIN pending_archives \ to_remove |-> pending_archives[k]]
      /\ thread' = [thread EXCEPT ![t] =
            IF to_remove # {}
            THEN Snapshot([thread[t] EXCEPT !.calls = @ + 1, !.removes = @ + 1],
                          pending_archives', "idle")
            ELSE [thread[t] EXCEPT !.calls = @ + 1, !.removes = @ + 1]]
      /\ UNCHANGED <<pending_file, common_passwords, disk, lastOp, call>>
      /\ UNCHANGED <<uploads, devices, rows, run>>

ThreadsNext ==
    \/ \E path \in Paths : DownloadFile(path)
    \/ \E t \in Threads :
          \/ ThreadWriteFile(t)
          \/ \E path \in Paths : ThreadAdd(t, path)
          \/ \E file_hash \in Digests, password \in Passwords :
                ThreadExtractBegin(t, file_hash, password)
          \/ ThreadExtractEnd(t)
          \/ \E file_hash \in Digests : ThreadRemove(t, file_hash)
          \/ \E max_age_days \in MaxAgeDays : ThreadCleanup(t, max_age_days)

\* the process dies at any point of a call and is started again: the
\* memory of the manager and the calls under way are lost, __init__ loads
\* the pending set from the file (lines 79-89) and the built-in passwords
MaxCrashes == 1     \* process crashes in one behaviour

CrashAndReload ==
    /\ lastOp.seq < MaxCrashes
    /\ pending_archives' = LoadPendingArchives(pending_file)
    /\ common_passwords' = DefaultCommonPasswords
    /\ thread' = [t \in Threads |-> [IdleThread EXCEPT !.calls = thread[t].calls]]
    /\ Called("crash", <<"sha256", 0>>, "", [success |-> TRUE, message |-> ""])
    /\ UNCHANGED <<clock, pending_file, disk, call>>
    /\ UNCHANGED <<uploads, devices, rows, run>>

CrashNext ==
    \/ ThreadsNext
    \/ CrashAndReload

\* no handler, parser or classifier call has been made
NoCall == [fn |-> "none", arg |-> <<>>, ret |-> <<>>]

----------------------------------------------------------------------------
(* Telegram bot handlers around the manager: handle_document,               *)
(* unlock_command, trypasswords_command.  The bot runs them on one event    *)
(* loop and process_zip_file is a synchronous call, so a handler is one     *)
(* step.                                                                    *)

\* what the archives of ArchiveFiles hold once opened with their password:
\* device folders of their own and/or plain ZIP files
Contents ==
    [path \in Paths |->
        CASE path = "/up/x.zip" ->
                [groups |-> <<Group(5, 1, 1, FALSE)>>, zips |-> <<>>]
          [] path = "/up/y.rar" ->
                [groups |-> <<Group(7, 1, 1, FALSE)>>, zips |-> <<>>]
          [] OTHER ->
                [groups |-> <<>>,
                 zips |-> <<[zip_path |-> "/up/extracted_z/n.zip", kind |-> "ok",
                             groups |-> <<Group(6, 2, 1, FALSE)>>]>>]]

\* process_zip_file run to its end with nothing else touching the store, for
\* an archive without a failing device: batch id from the clock, known hashes
\* skipped, the others committed, summary written (or 'failed' when the file
\* is no ZIP)
ProcessZipFile(store, zip) ==
    LET b == store.clock + 1
        existing == ExistingDeviceHashes(store.devices, zip.groups)
        new == {k \in DOMAIN zip.groups :
                   compute_device_hash(zip.groups[k].name) \notin existing}
        session == [active |-> TRUE,
                    new_devices |-> {DeviceRow(zip.groups[k], b, zip.kind) : k \in new},
                    new_rows |-> UNION {ChildRows(zip.groups[k], zip.kind) : k \in new}]
        done == [NewUpload(b, zip.zip_path) EXCEPT
                    !.status = "completed",
                    !.devices_found = Len(zip.groups),
                    !.devices_processed = Cardinality(new),
                    !.devices_skipped = Len(zip.groups) - Cardinality(new),
                    !.completed_at = b + 1]
    IN IF zip.kind = "corrupt"
       THEN [store EXCEPT
                !.clock = b,
                !.uploads = (b :> MarkFailed(NewUpload(b, zip.zip_path), "BadZipFile"))
                            @@ store.uploads]
       ELSE [clock |-> b + 1,
             uploads |-> (b :> done) @@ store.uploads,
             devices |-> CommitDevices(store.devices, session),
             rows |-> CommitRows(store.rows, session)]

\* unlock_command lines 169-175: every ZIP found under the output directory
RECURSIVE ProcessZipFiles(_, _)
ProcessZipFiles(store, zips) ==
    IF zips = <<>> THEN store
    ELSE ProcessZipFiles(ProcessZipFile(store, Head(zips)), Tail(zips))

\* the file handle_document hands to process_zip_file after a common password
\* was found: the archive as downloaded, still encrypted (a RAR is no ZIP)
AsDownloaded(path) ==
    [zip_path |-> path,
     kind |-> IF ArchiveFiles[path].ext = ".zip" THEN "encrypted" ELSE "corrupt",
     groups |-> IF ArchiveFiles[path].ext = ".zip" THEN Contents[path].groups
                ELSE <<>>]

Store == [clock |-> clock, uploads |-> uploads, devices |-> devices, rows |-> rows]

SetStore(store) ==
    /\ clock' = store.clock
    /\ uploads' = store.uploads
    /\ devices' = store.devices
    /\ rows' = store.rows

\* the handler has returned; unlocked = archives it opened with a password
Handled(fn, arg, unlocked) == call' = [fn |-> fn, arg |-> arg, ret |-> unlocked]

\* handle_document (handlers.py lines 52-101) for a protected archive
HandleDocument(path) ==
    LET found == try_common_passwords(common_passwords, path) IN
      /\ lastOp.seq < MaxOps
      /\ path \in disk
      /\ IF found # <<>>
         THEN LET store == ProcessZipFile(Store, AsDownloaded(path)) IN
                /\ SetStore(store)
                /\ disk' = IF store.uploads[clock + 1].status = "completed"
                           THEN disk \ {path} ELSE disk
                /\ Called("try", GetFileHash(path), found[1],
                          [success |-> TRUE, message |-> ""])
                /\ Handled("handle_document", path, {path})
                /\ UNCHANGED <<pending_archives, pending_file>>
         ELSE /\ clock' = clock + 1
              /\ pending_archives' =
                    Put(pending_archives, GetFileHash(path),
                        NewPendingArchive(path, "Telegram", clock'))
              /\ pending_file' = SavePendingArchives(pending_archives')
              /\ Called("add", GetFileHash(path), "",
                        [success |-> TRUE, message |-> ""])
              /\ Handled("handle_document", path, {})
              /\ UNCHANGED <<uploads, devices, rows, disk>>
      /\ UNCHANGED <<common_passwords, run, thread>>

\* unlock_command (password_commands.py lines 151-227) for a pending archive
\* whose file exists
UnlockCommand(file_hash, password) ==
    /\ lastOp.seq < MaxOps
    /\ file_hash \in DOMAIN pending_archives
    /\ pending_archives[file_hash].file_path \in disk
    /\ LET path == pending_archives[file_hash].file_path
           begun == BeginAttempt(pending_archives, file_hash, clock + 1)
       IN \E result \in ExtractResults(path, password) :
            /\ IF result.success
               THEN /\ pending_archives' = Extracted(begun, file_hash)
                    /\ common_passwords' = LearnPassword(common_passwords, password)
                    /\ SetStore(ProcessZipFiles([Store EXCEPT !.clock = clock + 1],
                                                Contents[path].zips))
                    /\ Handled("unlock_command", file_hash, {path})
               ELSE /\ pending_archives' = AttemptFailed(begun, file_hash)
                    /\ clock' = clock + 1
                    /\ Handled("unlock_command", file_hash, {})
                    /\ UNCHANGED <<common_passwords, uploads, devices, rows>>
            /\ pending_file' = SavePendingArchives(pending_archives')
            /\ Called("extract", file_hash, password, result)
    /\ UNCHANGED <<disk, run, thread>>

\* trypasswords_command (password_commands.py lines 255-291): records whose
\* file is gone are removed, the others are extracted when a common password
\* opens them; nothing is handed to process_zip_file
TrypasswordsCommand ==
    LET gone == {h \in DOMAIN pending_archives :
                    pending_archives[h].file_path \notin disk}
        opened == {h \in DOMAIN pending_archives \ gone :
                      try_common_passwords(common_passwords,
                                           pending_archives[h].file_path) # <<>>}
    IN
      /\ lastOp.seq < MaxOps
      /\ DOMAIN pending_archives # {}
      /\ clock' = clock + 1
      /\ pending_archives' =
            [k \in DOMAIN pending_archives \ (gone \cup opened) |->
                pending_archives[k]]
      /\ pending_file' =
            IF gone \cup opened # {} THEN SavePendingArchives(pending_archives')
            ELSE pending_file
      /\ Called("trypasswords", <<"sha256", 0>>, "",
                [success |-> opened # {}, message |-> ""])
      /\ Handled("trypasswords_command", <<>>,
                 {pending_archives[h].file_path : h \in opened})
      /\ UNCHANGED <<common_passwords, disk, uploads, devices, rows, run, thread>>

BotNext ==
    \/ \E path \in Paths : DownloadFile(path)
    \/ \E path \in Paths : HandleDocument(path)
    \/ \E file_hash \in Digests, password \in Passwords :
          UnlockCommand(file_hash, password)
    \/ TrypasswordsCommand
    \/ \E password \in Passwords : AddPasswordCommand(password)

----------------------------------------------------------------------------
(* Probing and extracting an archive, as functions of what zipfile and the  *)
(* unrar / 7z tools answer.  An error text is the set of phrases it holds,   *)
(* lower-cased, so that `'x' in str(e).lower()` is membership.               *)

MaxEntries == 2     \* entries of a probed ZIP

\* zf.read / zf.extract of one entry
EntryOutcomes ==
    {[kind |-> "dir", type |-> "", msg |-> {}],
     [kind |-> "ok", type |-> "", msg |-> {}],
     [kind |-> "raise", type |-> "RuntimeError", msg |-> {"encrypted", "password"}],
     [kind |-> "raise", type |-> "RuntimeError", msg |-> {"bad password"}],
     [kind |-> "raise", type |-> "RuntimeError", msg |-> {"closed file"}],
     [kind |-> "raise", type |-> "BadZipFile", msg |-> {"bad crc-32"}]}

EntryLists == UNION {[1..n -> EntryOutcomes] : n \in 0..MaxEntries}

\* zipfile.ZipFile(file_path) and its entries
ZipFiles ==
    {[open |-> "ok", entries |-> es] : es \in EntryLists}
    \cup {[open |-> o, entries |-> <<>>] : o \in {"BadZipFile", "PermissionError"}}

NoZip == [open |-> "unused", entries |-> <<>>]

\* subprocess.run of unrar or 7z: not installed, timed out, or ran to an exit
\* code with a stderr text
ToolRuns ==
    {[st |-> "missing", rc |-> 0, stderr |-> {}],
     [st |-> "timeout", rc |-> 0, stderr |-> {}],
     [st |-> "ran", rc |-> 0, stderr |-> {}]}
    \cup {[st |-> "ran", rc |-> rc, stderr |-> e] :
            rc \in {3, 11},
            e \in {{}, {"encrypted"}, {"wrong password"}, {"password is incorrect"},
                   {"checksum error"}, {"checksum error", "wrong password"},
                   {"is not rar archive"}}}

NoRun == [st |-> "unused", rc |-> 0, stderr |-> {}]

\* what a call on an archive meets: 7z is run only when unrar is missing
ArchiveProbes ==
    {[ext |-> ".zip", zip |-> z, unrar |-> NoRun, sevenz |-> NoRun] : z \in ZipFiles}
    \cup {[ext |-> e, zip |-> NoZip, unrar |-> u, sevenz |-> NoRun] :
            e \in {".rar", ".7z"}, u \in {r \in ToolRuns : r.st # "missing"}}
    \cup {[ext |-> e, zip |-> NoZip, unrar |-> u, sevenz |-> z] :
            e \in {".rar", ".7z"}, u \in {r \in ToolRuns : r.st = "missing"},
            z \in ToolRuns}
    \cup {[ext |-> ".tar", zip |-> NoZip, unrar |-> NoRun, sevenz |-> NoRun]}

Contains(text, phrase) == \E p \in text : p = phrase \/ (phrase = "password" /\ p \in
    {"bad password", "wrong password", "password is incorrect"})

\* how a call ends: it returns a value or an exception leaves it
Returned(value) == <<[raised |-> "", value |-> value]>>
Raised(exception) == <<[raised |-> exception, value |-> FALSE]>>

\* _is_zip_password_protected, the loop over infolist() (lines 167-177)
RECURSIVE ProbeEntries(_)
ProbeEntries(entries) ==
    IF entries = <<>> THEN FALSE
    ELSE LET e == Head(entries) IN
      CASE e.kind = "dir" -> ProbeEntries(Tail(entries))
        [] e.kind = "ok" -> FALSE
        [] e.kind = "raise" /\ e.type = "RuntimeError"
             /\ (Contains(e.msg, "encrypted") \/ Contains(e.msg, "password")) -> TRUE
        [] OTHER -> ProbeEntries(Tail(entries))

\* _is_zip_password_protected (lines 162-182)
IsZipPasswordProtected(zip) ==
    IF zip.open = "ok" THEN Returned(ProbeEntries(zip.entries))
    ELSE Returned(FALSE)

\* _is_rar_password_protected (lines 184-214); a timeout of the 7z run is
\* raised inside the handler of FileNotFoundError and leaves the method
IsRarPasswordProtected(unrar, sevenz) ==
    CASE unrar.st = "ran" ->
            Returned(Contains(unrar.stderr, "encrypted") \/ unrar.rc # 0)
      [] unrar.st = "timeout" -> Returned(FALSE)
      [] sevenz.st = "ran" ->
            Returned(Contains(sevenz.stderr, "wrong password") \/ sevenz.rc # 0)
      [] sevenz.st = "missing" -> Returned(FALSE)
      [] OTHER -> Raised("TimeoutExpired")

\* is_password_protected (lines 150-160)
is_password_protected(probe) ==
    CASE probe.ext = ".zip" -> IsZipPasswordProtected(probe.zip)
      [] probe.ext \in {".rar", ".7z"} ->
            IsRarPasswordProtected(probe.unrar, probe.sevenz)
      [] OTHER -> Returned(FALSE)

ApplyIsPasswordProtected ==
    /\ call.fn = "is_password_protected"
    /\ call.ret = <<>>
    /\ call' = [call EXCEPT !.ret = is_password_protected(call.arg)]
    /\ UNCHANGED <<clock, uploads, devices, rows, run, pending_archives,
                   pending_file, common_passwords, disk, lastOp, thread>>

\* a result message: one of the manager's fixed texts, or a raw error text
\* (str(e), stderr) given by its phrases
Message(text) == [text |-> text, raw |-> {}]
RawMessage(phrases) == [text |-> "", raw |-> phrases]

ExtractFailure(message) == [success |-> FALSE, message |-> message]

\* _extract_zip, the loop over infolist() (lines 388-396): the first entry
\* that raises ends the extraction
RECURSIVE ExtractEntries(_)
ExtractEntries(entries) ==
    IF entries = <<>> THEN [success |-> TRUE, message |-> Message("Extracted files")]
    ELSE LET e == Head(entries) IN
      CASE e.kind # "raise" -> ExtractEntries(Tail(entries))
        [] e.type = "RuntimeError"
             /\ (Contains(e.msg, "password") \/ Contains(e.msg, "encrypted")) ->
                ExtractFailure(Message("Wrong password"))
        [] OTHER -> ExtractFailure(RawMessage(e.msg))

\* _extract_zip (lines 383-404)
ExtractZip(zip) ==
    IF zip.open = "ok" THEN ExtractEntries(zip.entries)
    ELSE ExtractFailure(RawMessage({zip.open}))

\* _extract_rar (lines 406-454); a timeout of the 7z run reaches the except
\* of extract_with_password (lines 377-381), which returns str(e) as well
ExtractRar(unrar, sevenz) ==
    LET extracted == [success |-> TRUE, message |-> Message("Extracted files")]
        StderrOr(tool) == IF tool.stderr # {} THEN RawMessage(tool.stderr)
                          ELSE Message("Extraction failed")
    IN CASE unrar.st = "ran" /\ unrar.rc = 0 -> extracted
         [] unrar.st = "ran" /\ Contains(unrar.stderr, "wrong password") ->
                ExtractFailure(Message("Wrong password"))
         [] unrar.st = "ran" -> ExtractFailure(StderrOr(unrar))
         [] unrar.st = "timeout" -> ExtractFailure(RawMessage({"timed out"}))
         [] sevenz.st = "ran" /\ sevenz.rc = 0 -> extracted
         [] sevenz.st = "ran" -> ExtractFailure(StderrOr(sevenz))
         [] sevenz.st = "missing" ->
                ExtractFailure(Message("No RAR/7z extractor installed"))
         [] OTHER -> ExtractFailure(RawMessage({"timed out"}))

\* extract_with_password, the dispatch on the suffix (lines 350-357)
ExtractByFormat(probe) ==
    CASE probe.ext = ".zip" -> ExtractZip(probe.zip)
      [] probe.ext \in {".rar", ".7z"} -> ExtractRar(probe.unrar, probe.sevenz)
      [] OTHER -> ExtractFailure(Message("Unsupported format"))

\* unlock_command: the heading of the reply (password_commands.py lines
\* 153-227)
UnlockReply(result) ==
    IF result.success THEN "Successfully Extracted!" ELSE "Wrong Password!"

ApplyUnlock ==
    /\ call.fn = "unlock_command"
    /\ call.ret = <<>>
    /\ LET result == ExtractByFormat(call.arg) IN
         call' = [call EXCEPT !.ret = Returned([result |-> result,
                                                reply |-> UnlockReply(result)])]
    /\ UNCHANGED <<clock, uploads, devices, rows, run, pending_archives,
                   pending_file, common_passwords, disk, lastOp, thread>>

----------------------------------------------------------------------------
\* The credential parsers (password_parser.py, enhanced_password_parser.py).
\* A password file is a sequence of lines.  A field line is "<key>:<value>"
\* with a key every parser recognises ("URL:", "USER:", "PASS:" are prefixes
\* for the enhanced extractors and, lower-cased, keywords for
\* PasswordFileParser); its value is what follows the colon, stripped, and
\* may be empty.

MaxLines == 4       \* lines of a password file

BlankLine == [key |-> "blank", value |-> ""]

\* "===============": the RedLine separator, and a line of one repeated
\* character of "=_-|" for PasswordFileParser
SeparatorLine == [key |-> "separator", value |-> ""]

FieldLines ==
    { [key |-> "URL", value |-> v] : v \in {"", "http://a/login"} }
    \cup { [key |-> "USER", value |-> v] : v \in {"", "u"} }
    \cup { [key |-> "PASS", value |-> v] : v \in {"", "p"} }

FileLines == FieldLines \cup {BlankLine, SeparatorLine}

PasswordFiles == UNION { [1..n -> FileLines] : n \in 0..MaxLines }

NoCredential == [url |-> "", username |-> "", password |-> ""]

_extract_value(line) == line.value

_is_valid_credential(credential) ==
    credential.url /= "" /\ credential.username /= "" /\ credential.password /= ""

\* parse_password_file, second pass, the elif chain of lines 130-138
SetField(current_credential, line) ==
    CASE line.key = "URL" ->
           [current_credential EXCEPT !.url = _extract_value(line)]
      [] line.key = "USER" ->
           [current_credential EXCEPT !.username = _extract_value(line)]
      [] line.key = "PASS" ->
           [current_credential EXCEPT !.password = _extract_value(line)]
      [] OTHER -> current_credential

\* parse_password_file, second pass: credentials appended so far, given the
\* lines still to read and the block being collected
RECURSIVE SecondPass(_, _, _)
SecondPass(lines, current_credential, credentials) ==
    LET closed == IF _is_valid_credential(current_credential)
                  THEN Append(credentials, current_credential)
                  ELSE credentials
    IN IF lines = <<>> THEN closed
       ELSE IF Head(lines).key \in {"blank", "separator"}
       THEN SecondPass(Tail(lines), NoCredential, closed)
       ELSE SecondPass(Tail(lines), SetField(current_credential, Head(lines)),
                       credentials)

parse_password_file(content) == SecondPass(content, NoCredential, <<>>)

\* contents.split(delimiter) on whole lines: the runs of lines between the
\* delimiter lines
RECURSIVE SplitEntries(_, _, _)
SplitEntries(lines, delimiter, entry) ==
    IF lines = <<>> THEN <<entry>>
    ELSE IF Head(lines).key = delimiter
    THEN <<entry>> \o SplitEntries(Tail(lines), delimiter, <<>>)
    ELSE SplitEntries(Tail(lines), delimiter, Append(entry, Head(lines)))

\* urlsplit: scheme://netloc of the URL
NormalizeUrl(url) ==
    CASE url = "http://a/login" -> "http://a"
      [] OTHER -> url

\* the fields of one entry: the last value of each recognised key
RECURSIVE EntryFields(_, _)
EntryFields(lines, fields) ==
    IF lines = <<>> THEN fields
    ELSE EntryFields(Tail(lines), SetField(fields, Head(lines)))

\* "Only add if we have at least a URL"
EntryCredentialUrlOnly(entry) ==
    LET fields == EntryFields(entry, NoCredential) IN
    IF fields.url /= ""
    THEN <<[fields EXCEPT !.url = NormalizeUrl(fields.url)]>>
    ELSE <<>>

RECURSIVE EntryCredentials(_)
EntryCredentials(entries) ==
    IF entries = <<>> THEN <<>>
    ELSE EntryCredentialUrlOnly(Head(entries)) \o EntryCredentials(Tail(entries))

extract_passwords_raccoon(contents) ==
    EntryCredentials(SplitEntries(contents, "blank", <<>>))

extract_passwords_redline(contents) ==
    EntryCredentials(SplitEntries(contents, "separator", <<>>))

CredentialParsers ==
    {"parse_password_file", "extract_passwords_raccoon",
     "extract_passwords_redline"}

ApplyParser ==
    /\ call.fn \in CredentialParsers
    /\ call.ret = <<>>
    /\ LET credentials ==
             CASE call.fn = "parse_password_file" ->
                    parse_password_file(call.arg)
               [] call.fn = "extract_passwords_raccoon" ->
                    extract_passwords_raccoon(call.arg)
               [] OTHER -> extract_passwords_redline(call.arg)
       IN call' = [call EXCEPT !.ret = Returned(credentials)]
    /\ UNCHANGED <<clock, uploads, devices, rows, run, pending_archives,
                   pending_file, common_passwords, disk, lastOp, thread>>

----------------------------------------------------------------------------
\* detect_card_brand (cc_integration.py).  A card number is the text after
\* "Card: " or "CC NUMBER: " in a stealer log (cc_parser.py lines 50-52,
\* 100): a sequence of characters, not necessarily digits.

MaxDigits == 4      \* length of the exhaustively enumerated card numbers

DecimalDigits == <<"0", "1", "2", "3", "4", "5", "6", "7", "8", "9">>

DigitChars == { DecimalDigits[i] : i \in 1..Len(DecimalDigits) }

\* U+00B2, a character of category No: str.isdigit() accepts it, int()
\* rejects it with ValueError
SuperscriptTwo == "^2"

Mastercard16 ==
    <<"2", "2", "2", "3", "0", "0", "0", "0",
      "4", "8", "4", "0", "0", "0", "1", "1">>

CardNumbers ==
    UNION { [1..n -> DigitChars] : n \in 0..MaxDigits }
    \cup { <<"6", "2", "2">> \o tail : tail \in [1..3 -> DigitChars] }
    \cup UNION { [1..n -> {"3", "4", SuperscriptTwo, " ", "-", "x"}] :
                   n \in 0..MaxDigits }
    \cup { Mastercard16 }

\* str.replace(old, ''): the text without the character
replace(text, old) ==
    LET Keep(c) == c /= old IN SelectSeq(text, Keep)

\* str.isdigit(): non-empty and every character a digit character
isdigit(text) ==
    /\ text /= <<>>
    /\ \A i \in 1..Len(text) : text[i] \in DigitChars \cup {SuperscriptTwo}

\* text[:n]
Slice(text, n) == SubSeq(text, 1, IF Len(text) < n THEN Len(text) ELSE n)

\* int(text) raises ValueError unless text is a decimal literal
IntRaises(text) ==
    text = <<>> \/ \E i \in 1..Len(text) : text[i] \notin DigitChars

DigitValue(c) == CHOOSE d \in 0..9 : DecimalDigits[d + 1] = c

RECURSIVE int(_)
int(text) ==
    IF text = <<>> THEN 0
    ELSE 10 * int(SubSeq(text, 1, Len(text) - 1)) + DigitValue(text[Len(text)])

detect_card_brand(card_number) ==
    LET clean_number == replace(replace(card_number, " "), "-")
        \* len(clean_number) >= n and ... int(clean_number[:n]) ...
        Raises(n) == Len(clean_number) >= n /\ IntRaises(Slice(clean_number, n))
        Between(n, low, high) ==
            /\ Len(clean_number) >= n
            /\ low <= int(Slice(clean_number, n))
            /\ int(Slice(clean_number, n)) <= high
    IN IF ~isdigit(clean_number) THEN Returned("Unknown")
       ELSE IF clean_number[1] = "4" THEN Returned("Visa")
       ELSE IF Slice(clean_number, 2) \in
                 {<<"5", "1">>, <<"5", "2">>, <<"5", "3">>, <<"5", "4">>,
                  <<"5", "5">>}
       THEN Returned("Mastercard")
       ELSE IF Raises(4) THEN Raised("ValueError")
       ELSE IF Between(4, 2221, 2720) THEN Returned("Mastercard")
       ELSE IF Slice(clean_number, 2) \in {<<"3", "4">>, <<"3", "7">>}
       THEN Returned("American Express")
       ELSE IF Slice(clean_number, 4) = <<"6", "0", "1", "1">>
       THEN Returned("Discover")
       ELSE IF Raises(6) THEN Raised("ValueError")
       ELSE IF Between(6, 622126, 622925) THEN Returned("Discover")
       ELSE IF Raises(3) THEN Raised("ValueError")
       ELSE IF Between(3, 644, 649) THEN Returned("Discover")
       ELSE IF Slice(clean_number, 2) = <<"6", "5">> THEN Returned("Discover")
       ELSE IF Raises(4) THEN Raised("ValueError")
       ELSE IF Between(4, 3528, 3589) THEN Returned("JCB")
       ELSE IF Raises(3) THEN Raised("ValueError")
       ELSE IF Between(3, 300, 305) THEN Returned("Diners Club")
       ELSE IF Slice(clean_number, 2) \in {<<"3", "6">>, <<"3", "8">>}
       THEN Returned("Diners Club")
       ELSE Returned("Unknown")

ApplyDetectCardBrand ==
    /\ call.fn = "detect_card_brand"
    /\ call.ret = <<>>
    /\ call' = [call EXCEPT !.ret = detect_card_brand(call.arg)]
    /\ UNCHANGED <<clock, uploads, devices, rows, run, pending_archives,
                   pending_file, common_passwords, disk, lastOp, thread>>

\* mask_card_number (cc_integration.py lines 71-84)
mask_card_number(card_number) ==
    LET clean_number == replace(replace(card_number, " "), "-") IN
    IF Len(clean_number) >= 4
    THEN <<"*", "*", "*", "*">>
         \o SubSeq(clean_number, Len(clean_number) - 3, Len(clean_number))
    ELSE <<"*", "*", "*", "*">>

MaxCards == 2       \* cards found in one device directory

\* the card numbers parse_cc_from_directory hands over
FoundNumbers ==
    { <<"4", "1", "1", "1", "2", "3", "4", "5">>,
      <<"5", "1", "0", "0", "-", "6", "7", "8", "9">>,
      <<"1", "2", "3">>,
      <<"3", "3", SuperscriptTwo>>,
      Mastercard16 }

CardLists == UNION { [1..n -> FoundNumbers] : n \in 0..MaxCards }

\* the CreditCardModel row built for one card (lines 125-133); brand is the
\* value detect_card_brand returned
CreditCardModel(number, brand) ==
    [card_number |-> number,
     card_number_masked |-> mask_card_number(number),
     card_brand |-> brand]

\* the loop of lines 120-142: the rows added to the session, and whether
\* detect_card_brand raised on the way
RECURSIVE AddCards(_, _)
AddCards(cards, added) ==
    IF cards = <<>> THEN [added |-> added, raised |-> FALSE]
    ELSE LET brand == detect_card_brand(Head(cards))[1] IN
         IF brand.raised /= "" THEN [added |-> added, raised |-> TRUE]
         ELSE AddCards(Tail(cards),
                       Append(added, CreditCardModel(Head(cards), brand.value)))

\* process_credit_cards_for_device: the rows committed to the store
\* (db_session.commit() at line 144, rollback() at line 150) and the list
\* returned
process_credit_cards_for_device(cards) ==
    LET session == AddCards(cards, <<>>) IN
    [committed |-> IF session.raised THEN <<>> ELSE session.added,
     db_cards |-> session.added]

ApplyProcessCreditCards ==
    /\ call.fn = "process_credit_cards_for_device"
    /\ call.ret = <<>>
    /\ call' = [call EXCEPT
                  !.ret = Returned(process_credit_cards_for_device(call.arg))]
    /\ UNCHANGED <<clock, uploads, devices, rows, run, pending_archives,
                   pending_file, common_passwords, disk, lastOp, thread>>

----------------------------------------------------------------------------
\* WalletParser.parse_wallet_file (wallet_parser.py).  A wallet file is a
\* sequence of lines; a line is "<key>: <value>", a bare value, or blank.

MaxWalletLines == 3     \* lines of a wallet file

EthAddress == "0xE1"            \* 0x and 40 hex digits
HexKey == "hex64"               \* 64 hex digits
Mnemonic == "twelve words"      \* 12 alphabetic words

WalletValues == {EthAddress, HexKey, Mnemonic}

\* "" is a line without a colon
WalletKeys == {"address", "private key", "seed", "note", ""}

WalletBlankLine == [key |-> "blank", value |-> ""]

WalletLines ==
    { [key |-> k, value |-> v] : k \in WalletKeys, v \in WalletValues }
    \cup {WalletBlankLine}

WalletFiles == UNION { [1..n -> WalletLines] : n \in 0..MaxWalletLines }

\* current_wallet = {}: an absent key is ""
EmptyWallet == [mnemonic |-> "", private_key |-> "", address |-> ""]

_is_mnemonic(text) == text = Mnemonic

\* _parse_structured_format, lines 103-123: what one line adds to the block
WalletField(current_wallet, line) ==
    CASE line.key = "seed" -> [current_wallet EXCEPT !.mnemonic = line.value]
      [] line.key = "private key" ->
           [current_wallet EXCEPT !.private_key = line.value]
      [] line.key = "address" -> [current_wallet EXCEPT !.address = line.value]
      [] line.key = "" /\ _is_mnemonic(line.value) ->
           [current_wallet EXCEPT !.mnemonic = line.value]
      [] OTHER -> current_wallet

_create_wallet_from_dict(data) ==
    [wallet_type |-> IF data.address = EthAddress THEN "ETH"
                     ELSE IF data.mnemonic /= "" THEN "multi"
                     ELSE "unknown",
     mnemonic |-> data.mnemonic,
     private_key |-> data.private_key,
     address |-> data.address]

RECURSIVE ParseStructured(_, _, _)
ParseStructured(lines, current_wallet, wallets) ==
    LET closed == IF current_wallet /= EmptyWallet
                  THEN wallets \cup {_create_wallet_from_dict(current_wallet)}
                  ELSE wallets
    IN IF lines = <<>> THEN closed
       ELSE IF Head(lines).key = "blank"
       THEN ParseStructured(Tail(lines), EmptyWallet, closed)
       ELSE ParseStructured(Tail(lines),
                            WalletField(current_wallet, Head(lines)), wallets)

_parse_structured_format(lines) == ParseStructured(lines, EmptyWallet, {})

\* the values anywhere in the content, whatever their key
ValuesIn(content) == { content[i].value : i \in 1..Len(content) }

\* _parse_by_patterns.  PATTERNS['mnemonic'] has one group, so findall
\* returns the last repetition of the group, a single word, which
\* _is_mnemonic refuses: the scan yields addresses and keys only.
_parse_by_patterns(content) ==
    { [wallet_type |-> "ETH", mnemonic |-> "", private_key |-> "",
       address |-> v] : v \in ValuesIn(content) \cap {EthAddress} }
    \cup
    { [wallet_type |-> "multi", mnemonic |-> "", private_key |-> v,
       address |-> ""] : v \in ValuesIn(content) \cap {HexKey} }

\* lines 75-83: the pattern scan runs only when the structured pass found
\* nothing
parse_wallet_file(content) ==
    LET structured_wallets == _parse_structured_format(content) IN
    IF structured_wallets /= {} THEN structured_wallets
    ELSE _parse_by_patterns(content)

ApplyParseWalletFile ==
    /\ call.fn = "parse_wallet_file"
    /\ call.ret = <<>>
    /\ call' = [call EXCEPT !.ret = Returned(parse_wallet_file(call.arg))]
    /\ UNCHANGED <<clock, uploads, devices, rows, run, pending_archives,
                   pending_file, common_passwords, disk, lastOp, thread>>

----------------------------------------------------------------------------
\* The stealer-family label of a device's credentials (zip_ingestion.py).

\* stealer_patterns, in the order of the dict (lines 36-52)
stealer_patterns ==
    << <<"redline", "RedLine">>, <<"raccoon", "Raccoon">>,
       <<"vidar", "Vidar">>, <<"mars", "Mars">>, <<"azorult", "Azorult">>,
       <<"lumma", "Lumma">>, <<"meta", "Meta">>,
       <<"rhadamanthys", "Rhadamanthys">>, <<"stealc", "StealC">>,
       <<"titan", "Titan">>, <<"scorpion", "Scorpion">>,
       <<"aurora", "Aurora">>, <<"oski", "Oski">>,
       <<"formbook", "FormBook">>, <<"agentTesla", "Agent Tesla">> >>

\* archive file names, each with the keywords its lower-cased text contains
ZipFilenames ==
    { [name |-> "logs.zip", lower |-> {}],
      [name |-> "RedLine_logs.zip", lower |-> {"redline"}],
      [name |-> "raccoon_META.zip", lower |-> {"raccoon", "meta"}],
      [name |-> "agentTesla.zip", lower |-> {"agenttesla"}] }

\* None is ""
extract_stealer_name(zip_filename) ==
    LET found == { i \in 1..Len(stealer_patterns) :
                     stealer_patterns[i][1] \in zip_filename.lower }
    IN IF found = {} THEN ""
       ELSE stealer_patterns[CHOOSE i \in found : \A j \in found : i <= j][2]

\* the system file of a device: none, or one in which the parser finds the
\* label (or no label)
SystemFiles == { <<>>, <<[stealer_name |-> ""]>>, <<[stealer_name |-> "Vidar"]>> }

\* SystemFileParser.parse(content).get('stealer_name')
ParsedStealerName(content) == content.stealer_name

\* credentials parsed from the device's password files
ParsedCounts == {1, 2}

DeviceInputs ==
    [zip_filename : ZipFilenames, system_files : SystemFiles,
     all_credentials : ParsedCounts]

\* _process_device, lines 194-215, 277 and 358-369: the Credential rows
\* added for the device, by their stealer_name
LabelledCredentials(device) ==
    LET stealer_name == IF device.system_files /= <<>>
                        THEN ParsedStealerName(device.system_files[1])
                        ELSE ""
    IN [i \in 1..device.all_credentials |-> [stealer_name |-> stealer_name]]

ApplyProcessDeviceLabels ==
    /\ call.fn = "_process_device"
    /\ call.ret = <<>>
    /\ call' = [call EXCEPT !.ret = Returned(LabelledCredentials(call.arg))]
    /\ UNCHANGED <<clock, uploads, devices, rows, run, pending_archives,
                   pending_file, common_passwords, disk, lastOp, thread>>

----------------------------------------------------------------------------
\* PasswordFileParser._extract_url_info (password_parser.py).  A URL is a
\* sequence of tokens: the delimiters ":", "/", "." and the runs of other
\* characters between them.  None is the empty sequence.

Schemes ==
    { <<>>, <<"http", ":", "/", "/">>, <<"https", ":", "/", "/">>,
      <<"HTTPS", ":", "/", "/">>, <<"ftp", ":", "/", "/">> }

\* hosts, the leading "www." included
NamedHosts ==
    { <<"Example", ".", "com">>,
      <<"www", ".", "Example", ".", "com">>,
      <<"WWW", ".", "Example", ".", "COM">>,
      <<"mail", ".", "Example", ".", "com">>,
      <<"www", ".", "a", ".", "mail", ".", "Example", ".", "com">>,
      <<"localhost">> }

IPv4Hosts == { <<"192", ".", "168", ".", "1", ".", "5">> }

Ports == { <<>>, <<":", "8080">> }

UrlPaths == { <<>>, <<"/", "login">> }

Urls ==
    [scheme : Schemes, host : NamedHosts \cup IPv4Hosts, port : Ports,
     path : UrlPaths]

\* the text of the URL
UrlText(u) == u.scheme \o u.host \o u.port \o u.path

\* re.sub(r"^https?://", "", text): case-sensitive
StripScheme(text) ==
    IF Len(text) >= 4 /\ text[1] \in {"http", "https"}
       /\ SubSeq(text, 2, 4) = <<":", "/", "/">>
    THEN SubSeq(text, 5, Len(text))
    ELSE text

\* re.sub(r"^www\.", "", text): case-sensitive
StripWww(text) ==
    IF Len(text) >= 2 /\ text[1] = "www" /\ text[2] = "."
    THEN SubSeq(text, 3, Len(text))
    ELSE text

\* text.split(delimiter)[0]
RECURSIVE Before(_, _)
Before(text, delimiter) ==
    IF text = <<>> \/ Head(text) = delimiter THEN <<>>
    ELSE <<Head(text)>> \o Before(Tail(text), delimiter)

\* str.lower() of a token
LowerToken(token) ==
    CASE token = "Example" -> "example"
      [] token = "COM" -> "com"
      [] token = "WWW" -> "www"
      [] token = "HTTPS" -> "https"
      [] OTHER -> token

Lower(text) == [i \in 1..Len(text) |-> LowerToken(text[i])]

\* hostname.split("."): the labels; every label of these hosts is one token
Labels(hostname) ==
    LET NotDot(token) == token /= "." IN SelectSeq(hostname, NotDot)

\* \d{1,3}
Numeric(token) == token \in {"192", "168", "1", "5"}

\* _is_ip_address, lines 171-183
_is_ip_address(url) ==
    LET hostname == Before(Before(StripScheme(url), "/"), ":") IN
    /\ Len(hostname) = 7
    /\ \A i \in 1..7 : IF i % 2 = 1 THEN Numeric(hostname[i])
                                      ELSE hostname[i] = "."

\* _extract_url_info, lines 185-210
_extract_url_info(url) ==
    IF url = <<>> THEN [domain |-> <<>>, tld |-> <<>>]
    ELSE
    LET clean_url == StripWww(StripScheme(url))
        hostname == Lower(Before(Before(clean_url, "/"), ":"))
        parts == Labels(hostname)
    IN IF _is_ip_address(url) THEN [domain |-> hostname, tld |-> <<>>]
       ELSE IF Len(parts) >= 2
       THEN [domain |-> IF Len(parts) > 2
                        THEN <<parts[Len(parts) - 1], ".", parts[Len(parts)]>>
                        ELSE hostname,
             tld |-> <<parts[Len(parts)]>>]
       ELSE [domain |-> hostname, tld |-> <<>>]

ApplyExtractUrlInfo ==
    /\ call.fn = "_extract_url_info"
    /\ call.ret = <<>>
    /\ call' = [call EXCEPT
                  !.ret = Returned(_extract_url_info(UrlText(call.arg)))]
    /\ UNCHANGED <<clock, uploads, devices, rows, run, pending_archives,
                   pending_file, common_passwords, disk, lastOp, thread>>

PwdNext ==
    \/ \E path \in Paths : DownloadFile(path)
    \/ \E path \in Paths : DeleteFile(path)
    \/ \E path \in Paths : AddPendingArchive(path, "upload")
    \/ \E file_hash \in Digests, password \in Passwords :
          ExtractNotFound(file_hash, password)
    \/ \E file_hash \in Digests, password \in Passwords :
          ExtractFileMissing(file_hash, password)
    \/ \E file_hash \in Digests, password \in Passwords :
          ExtractWithPassword(file_hash, password)
    \/ \E file_hash \in Digests : RemovePending(file_hash)
    \/ \E max_age_days \in MaxAgeDays : CleanupOldPending(max_age_days)
    \/ \E path \in Paths : TryCommonPasswords(path)
    \/ \E password \in Passwords : AddPasswordCommand(password)
    \/ Restart

----------------------------------------------------------------------------

Constructed ==
    /\ clock = 0
    /\ uploads = EmptyTable
    /\ devices = EmptyTable
    /\ rows = {}
    /\ run = [w \in Workers |-> IdleRun]
    /\ pending_file = EmptyTable
    /\ pending_archives = LoadPendingArchives(pending_file)
    /\ common_passwords = DefaultCommonPasswords
    /\ disk = {}
    /\ lastOp = NoOp
    /\ thread = [t \in Threads |-> IdleThread]

Init == Constructed /\ call = NoCall

\* a parser or classifier is about to be called on one of its inputs
CallsInit ==
    /\ Constructed
    /\ \/ \E probe \in ArchiveProbes :
             call = [fn |-> "is_password_protected", arg |-> probe, ret |-> <<>>]
       \/ \E probe \in ArchiveProbes :
             call = [fn |-> "unlock_command", arg |-> probe, ret |-> <<>>]
       \/ \E fn \in CredentialParsers, content \in PasswordFiles :
             call = [fn |-> fn, arg |-> content, ret |-> <<>>]
       \/ \E card_number \in CardNumbers :
             call = [fn |-> "detect_card_brand", arg |-> card_number,
                     ret |-> <<>>]
       \/ \E cards \in CardLists :
             call = [fn |-> "process_credit_cards_for_device", arg |-> cards,
                     ret |-> <<>>]
       \/ \E content \in WalletFiles :
             call = [fn |-> "parse_wallet_file", arg |-> content, ret |-> <<>>]
       \/ \E device \in DeviceInputs :
             call = [fn |-> "_process_device", arg |-> device, ret |-> <<>>]
       \/ \E url \in Urls :
             call = [fn |-> "_extract_url_info", arg |-> url, ret |-> <<>>]

CallsNext ==
    \/ ApplyIsPasswordProtected
    \/ ApplyUnlock
    \/ ApplyParser
    \/ ApplyDetectCardBrand
    \/ ApplyProcessCreditCards
    \/ ApplyParseWalletFile
    \/ ApplyProcessDeviceLabels
    \/ ApplyExtractUrlInfo

IngestNext ==
    \E w \in Workers :
        \/ \E zip_path \in ZipPaths : StartRun(w, zip_path)
        \/ OpenArchive(w)
        \/ OpenArchiveFails(w)
        \/ SkipDevice(w)
        \/ ProcessDevice(w)
        \/ ProcessDeviceFails(w)
        \/ CommitDevice(w)
        \/ CommitDeviceFails(w)
        \/ Complete(w)
        \/ CloseSession(w)

SpecIngest == Init /\ [][IngestNext]_vars

SpecPwd == Init /\ [][PwdNext]_vars

SpecThreads == Init /\ [][ThreadsNext]_vars

SpecCrash == Init /\ [][CrashNext]_vars

SpecBot == Init /\ [][BotNext]_vars

SpecCalls == CallsInit /\ [][CallsNext]_vars

----------------------------------------------------------------------------
(* Properties *)

Ended(r) == r.pc \in {"done", "raised"}

HashAt(r, j) == compute_device_hash(r.device_map[j].name)

\* Device rows of the store that belong to batch b
BatchDevices(b) == {id \in DOMAIN devices : devices[id].upload_batch = b}

\* committed child rows of one table that belong to batch b
BatchRows(b, table) ==
    {x \in rows : x.table = table /\ x.device_id \in BatchDevices(b)}

DeviceFailure(r) == r.pc = "raised" /\ r.error \in {"IntegrityError", "DataError"}

\* C1: when processing or committing device N fails, the devices after N are
\* still attempted and the batch summary reports devices_found = number of
\* groups and devices_processed = number of devices actually committed.
C1_LaterDevicesAttempted ==
    \A w \in Workers :
        LET r == run[w] IN
          DeviceFailure(r) =>
            /\ r.i > Len(r.device_map)
            /\ uploads[r.upload_batch].devices_found = Len(r.device_map)
            /\ uploads[r.upload_batch].devices_processed =
                  Cardinality(BatchDevices(r.upload_batch))

\* C2: once a run has ended, every device of the archive that the run
\* processed before the position it stopped at (not skipped as known) is in
\* the store under this batch with all of its child rows: a failure at
\* device N does not undo devices 1..N-1.
C2_CommittedDevicesRemain ==
    \A w \in Workers :
        LET r == run[w] IN
          Ended(r) =>
            \A j \in DOMAIN r.device_map :
                (j < r.i /\ HashAt(r, j) \notin r.existing_hashes) =>
                    /\ DeviceId(HashAt(r, j)) \in DOMAIN devices
                    /\ devices[DeviceId(HashAt(r, j))] =
                          DeviceRow(r.device_map[j], r.upload_batch,
                                    Archives[r.zip_path].kind)
                    /\ ChildRows(r.device_map[j], Archives[r.zip_path].kind)
                          \subseteq rows

\* a run that failed at device N >= 2 after committing an earlier device
C2_Witness ==
    \E w \in Workers :
        /\ DeviceFailure(run[w])
        /\ \E j \in DOMAIN run[w].device_map :
              /\ j < run[w].i
              /\ HashAt(run[w], j) \notin run[w].existing_hashes
              /\ DeviceId(HashAt(run[w], j)) \in BatchDevices(run[w].upload_batch)

\* an earlier run on the same archive completed before run r started
CompletedBefore(r) ==
    \E b \in DOMAIN uploads :
        /\ uploads[b].filename = r.zip_path
        /\ uploads[b].status = "completed"
        /\ uploads[b].completed_at < r.upload_batch

LostRace(r, j) ==
    /\ j <= r.i
    /\ HashAt(r, j) \notin r.existing_hashes
    /\ DeviceId(HashAt(r, j)) \in DOMAIN devices
    /\ devices[DeviceId(HashAt(r, j))].upload_batch # r.upload_batch

\* C4: when two concurrent runs race for the same device hash, one commits
\* the device, the other counts it as skipped and neither batch fails
\* because of the race.
C4_RaceLoserSkips ==
    \A w \in Workers :
        LET r == run[w] IN
          Ended(r) =>
            \A j \in DOMAIN r.device_map :
                LostRace(r, j) =>
                    /\ r.error # "IntegrityError"
                    /\ r.pc = "done"
                    /\ uploads[r.upload_batch].status = "completed"
                    /\ uploads[r.upload_batch].devices_skipped >= 1

\* C5: a run that has returned or raised leaves its Upload row in a terminal
\* status, 'completed' or 'failed', never in 'processing'.
C5_TerminalStatus ==
    \A w \in Workers :
        Ended(run[w]) =>
            uploads[run[w].upload_batch].status \in {"completed", "failed"}

\* C6: every batch record that a run has given a terminal status, also
\* 'failed' after some devices were committed, carries devices_found,
\* devices_processed, devices_skipped and the credential/file counts of what
\* the run found and committed.
C6_TerminalCountsAccurate ==
    \A w \in Workers :
        LET r == run[w]
            u == r.upload
        IN
          (Ended(r) /\ u.status \in {"completed", "failed"}) =>
            /\ u.devices_found = Len(r.device_map)
            /\ u.devices_processed = Cardinality(BatchDevices(r.upload_batch))
            /\ u.devices_skipped = r.devices_skipped
            /\ u.total_credentials =
                  Cardinality(BatchRows(r.upload_batch, "credentials"))
            /\ u.total_files = Cardinality(BatchRows(r.upload_batch, "files"))

\* C7: a run on a password-protected archive ends with a batch outcome that
\* is neither 'completed' nor 'failed', and commits no Device built from
\* entries it could not read.
C7_EncryptedAwaitsPassword ==
    \A w \in Workers :
        LET r == run[w] IN
          (Ended(r) /\ Archives[r.zip_path].kind = "encrypted") =>
            /\ uploads[r.upload_batch].status \notin {"completed", "failed"}
            /\ BatchDevices(r.upload_batch) = {}

\* batch b is still being processed by some worker
Running(b) ==
    \E w \in Workers : run[w].upload_batch = b /\ ~Ended(run[w])

\* C8: once the run on a corrupt archive has ended, its batch is 'failed'
\* with a non-empty error message and no Device belongs to it.
C8_CorruptArchiveFailed ==
    \A b \in DOMAIN uploads :
        (Archives[uploads[b].filename].kind = "corrupt" /\ ~Running(b)) =>
            /\ uploads[b].status = "failed"
            /\ uploads[b].error_message # ""
            /\ BatchDevices(b) = {}

C8_Witness ==
    \E w \in Workers :
        /\ run[w].pc = "raised"
        /\ Archives[run[w].zip_path].kind = "corrupt"
        /\ uploads[run[w].upload_batch].status = "failed"

\* get_pending_archive (lines 310-312)
GetPendingArchive(pa, file_hash) ==
    IF file_hash \in DOMAIN pa THEN {pa[file_hash]} ELSE {}

\* C9: extract_with_password with a wrong password on a pending record whose
\* file exists returns a failure and leaves the record in the pending set,
\* status 'pending', attempts increased by exactly one, retrievable by
\* get_pending_archive.
C9_WrongPasswordKeepsPending ==
    [][\A h \in DOMAIN pending_archives : \A pw \in Passwords :
          ( /\ lastOp'.seq = lastOp.seq + 1
            /\ lastOp'.op = "extract"
            /\ lastOp'.file_hash = h
            /\ lastOp'.password = pw
            /\ pending_archives[h].file_path \in disk
            /\ pw # ArchiveFiles[pending_archives[h].file_path].password )
          =>
          ( /\ ~lastOp'.result.success
            /\ GetPendingArchive(pending_archives', h) # {}
            /\ \A a \in GetPendingArchive(pending_archives', h) :
                  /\ a.status = "pending"
                  /\ a.attempts = pending_archives[h].attempts + 1 )]_vars

\* two wrong attempts in a row have been counted on a record that is still pending
C9_Witness ==
    /\ lastOp.op = "extract"
    /\ ~lastOp.result.success
    /\ lastOp.file_hash \in DOMAIN pending_archives
    /\ lastOp.password #
          ArchiveFiles[pending_archives[lastOp.file_hash].file_path].password
    /\ pending_archives[lastOp.file_hash].attempts = 2
    /\ pending_archives[lastOp.file_hash].status = "pending"

C12_AddIdempotentOnDigest ==
    [][\A h \in DOMAIN pending_archives :
          ( /\ lastOp'.seq = lastOp.seq + 1
            /\ lastOp'.op = "add"
            /\ lastOp'.file_hash = h )
          =>
          ( /\ h \in DOMAIN pending_archives'
            /\ pending_archives'[h].attempts = pending_archives[h].attempts
            /\ pending_archives'[h].last_attempt = pending_archives[h].last_attempt
            /\ pending_archives'[h].detected_at = pending_archives[h].detected_at
            /\ pending_archives'[h].status = pending_archives[h].status )]_vars

NoDuplicates(cp) == \A j, k \in DOMAIN cp : cp[j] = cp[k] => j = k

InList(cp, password) == \E k \in DOMAIN cp : cp[k] = password

\* C15: the shared list never holds a password twice; a successful
\* extract_with_password appends its password exactly once when it was not in
\* the list and leaves the list unchanged when it was; from then on
\* try_common_passwords returns that password for every other archive it
\* protects; and every try_common_passwords call returns the archive's
\* password whenever the list holds it.
C15_CommonPasswordLearning ==
    /\ [](NoDuplicates(common_passwords))
    /\ []((lastOp.op = "try" /\ lastOp.file_hash \in {GetFileHash(p) : p \in Paths}) =>
            \A p \in Paths :
                (GetFileHash(p) = lastOp.file_hash
                 /\ InList(common_passwords, ArchiveFiles[p].password)) =>
                    /\ lastOp.result.success
                    /\ lastOp.password = ArchiveFiles[p].password)
    /\ [][(lastOp'.seq = lastOp.seq + 1 /\ lastOp'.op = "extract"
             /\ lastOp'.result.success) =>
            /\ InList(common_passwords, lastOp'.password) =>
                  common_passwords' = common_passwords
            /\ ~InList(common_passwords, lastOp'.password) =>
                  /\ Len(common_passwords') = Len(common_passwords) + 1
                  /\ common_passwords' = Append(common_passwords, lastOp'.password)
            /\ \A p \in Paths :
                  ArchiveFiles[p].password = lastOp'.password =>
                      try_common_passwords(common_passwords', p) =
                          <<lastOp'.password>>]_vars

\* x.zip was registered, then z.zip, then x.zip was opened with a password
\* that was not in the list, and try_common_passwords on z.zip returned it
C15_Witness ==
    /\ lastOp.op = "try"
    /\ lastOp.result.success
    /\ lastOp.seq = 4
    /\ clock = 3
    /\ lastOp.file_hash \in DOMAIN pending_archives
    /\ pending_archives[lastOp.file_hash].detected_at = <<2>>
    /\ ~InList(DefaultCommonPasswords, lastOp.password)
    /\ Len(common_passwords) = Len(DefaultCommonPasswords) + 1

\* the device groups an archive holds, directly or inside its ZIP files
ContainedGroups(path) ==
    {Contents[path].groups[k] : k \in DOMAIN Contents[path].groups}
    \cup UNION {{z.groups[k] : k \in DOMAIN z.groups} :
                   z \in {Contents[path].zips[j] : j \in DOMAIN Contents[path].zips}}

\* C16: when a bot handler has unlocked an archive (unlock_command,
\* trypasswords_command, or a common password found by handle_document), the
\* devices the archive holds are in the store with their credentials and
\* files by the time the handler has returned (nothing runs afterwards that
\* could ingest them later).
C16_UnlockedArchiveIngested ==
    \A path \in Paths :
        (call.fn \in {"unlock_command", "trypasswords_command", "handle_document"}
         /\ path \in call.ret) =>
            \A g \in ContainedGroups(path) :
                LET id == DeviceId(compute_device_hash(g.name)) IN
                  /\ id \in DOMAIN devices
                  /\ devices[id].total_credentials = g.creds
                  /\ ChildRows(g, "ok") \subseteq rows

\* the probe met a wrong-password or encrypted signal: a RuntimeError of an
\* entry, or the stderr of the tool that ran, says so
PasswordSignal(probe) ==
    LET texts == IF probe.ext = ".zip"
                 THEN {probe.zip.entries[k].msg : k \in
                          {j \in DOMAIN probe.zip.entries :
                              probe.zip.entries[j].type = "RuntimeError"}}
                 ELSE {probe.unrar.stderr, probe.sevenz.stderr}
    IN \E text \in texts :
          \/ Contains(text, "encrypted")
          \/ Contains(text, "password")

\* C17: is_password_protected returns true only when the probe met a
\* wrong-password or encrypted signal, and returns false for every probe
\* that met none (corrupt file, unreadable entry, tool failure), for ZIP and
\* for RAR/7z.
C17_ProtectedOnlyOnPasswordSignal ==
    (call.fn = "is_password_protected" /\ call.ret # <<>>) =>
        /\ call.ret = Returned(TRUE) => PasswordSignal(call.arg)
        /\ ~PasswordSignal(call.arg) => call.ret = Returned(FALSE)

\* the extraction failed on the password: the first ZIP entry that raised
\* did so with a RuntimeError about the password, or the tool that ran
\* exited non-zero with a stderr about the password
WrongPasswordFailure(probe) ==
    LET raising == {k \in DOMAIN probe.zip.entries :
                       probe.zip.entries[k].kind = "raise"}
        first == CHOOSE k \in raising : \A j \in raising : k <= j
        tool == IF probe.unrar.st = "missing" THEN probe.sevenz ELSE probe.unrar
    IN IF probe.ext = ".zip"
       THEN /\ raising # {}
            /\ probe.zip.entries[first].type = "RuntimeError"
            /\ Contains(probe.zip.entries[first].msg, "password")
       ELSE /\ tool.st = "ran"
            /\ tool.rc # 0
            /\ Contains(tool.stderr, "password")

\* C18: a failed extraction reports a wrong password with the result message
\* 'Wrong password' and every other failure (unsupported format, missing
\* extractor, corrupt archive, I/O error) with a different message, on the
\* ZIP path and on both tool paths, and unlock_command tells the user
\* 'Wrong Password!' only for a wrong password.
C18_WrongPasswordDistinct ==
    (call.fn = "unlock_command" /\ call.ret # <<>>) =>
        LET result == call.ret[1].value.result
            reply == call.ret[1].value.reply
        IN ~result.success =>
             /\ WrongPasswordFailure(call.arg) =>
                   result.message = Message("Wrong password")
             /\ ~WrongPasswordFailure(call.arg) =>
                   /\ result.message # Message("Wrong password")
                   /\ reply # "Wrong Password!"

\* every thread is outside the manager
Quiescent == \A t \in Threads : thread[t].pc = "idle"

\* sum of a counter of the thread records
Total(field) == thread["t1"][field] + thread["t2"][field]

\* C14: concurrent mutating calls behave as if serialised under one writer
\* lock.  Once both threads are back outside the manager: the persisted file
\* equals the in-memory set; if nothing was removed or opened, every digest a
\* thread registered is in the file; and if the set was registered once, its
\* record counts every extract attempt the threads made.
C14_ConcurrentCallsSerialised ==
    Quiescent =>
      /\ pending_file = SavePendingArchives(pending_archives)
      /\ (Total("removes") = 0 /\ Total("opened") = 0) =>
            \A t \in Threads : thread[t].added \subseteq DOMAIN pending_file
      /\ (Total("removes") = 0 /\ Total("opened") = 0 /\ Total("adds") = 1) =>
            \A h \in DOMAIN pending_archives :
                pending_archives[h].attempts = Total("extracts")

\* a credential with the three fields of the claim
HasAllThree(credential) ==
    credential.url /= "" /\ credential.username /= "" /\ credential.password /= ""

\* C19: every credential a parser of the pipeline (parse_password_file,
\* extract_passwords_raccoon, extract_passwords_redline) emits has a
\* non-empty URL, username and password, whatever the sequence of field
\* lines and separators: a block missing one of the three contributes none.
C19_OnlyCompleteBlocksEmitted ==
    (call.fn \in CredentialParsers /\ call.ret /= <<>>) =>
        \A i \in 1..Len(call.ret[1].value) : HasAllThree(call.ret[1].value[i])

\* the rules of the claim, in its order: a brand and the ranges of leading
\* digits that select it
BrandRules ==
    << [brand |-> "Visa", starts |-> {<<4, 4>>}],
       [brand |-> "Mastercard", starts |-> {<<51, 55>>, <<2221, 2720>>}],
       [brand |-> "American Express", starts |-> {<<34, 34>>, <<37, 37>>}],
       [brand |-> "Discover",
        starts |-> {<<6011, 6011>>, <<622126, 622925>>, <<644, 649>>,
                    <<65, 65>>}],
       [brand |-> "JCB", starts |-> {<<3528, 3589>>}],
       [brand |-> "Diners Club",
        starts |-> {<<300, 305>>, <<36, 36>>, <<38, 38>>}] >>

\* number of decimal digits of a prefix
Width(n) ==
    IF n < 10 THEN 1 ELSE IF n < 100 THEN 2 ELSE IF n < 1000 THEN 3
    ELSE IF n < 10000 THEN 4 ELSE IF n < 100000 THEN 5 ELSE 6

\* the number starts with a prefix of the range
StartsWith(number, range) ==
    LET lead == Slice(number, Width(range[1])) IN
    /\ Len(number) >= Width(range[1])
    /\ ~IntRaises(lead)
    /\ range[1] <= int(lead)
    /\ int(lead) <= range[2]

Matches(number, rule) == \E range \in rule.starts : StartsWith(number, range)

\* the brand the claim gives a card number
ClaimedBrand(card_number) ==
    LET number == replace(replace(card_number, " "), "-")
        matching == { i \in 1..Len(BrandRules) : Matches(number, BrandRules[i]) }
    IN IF ~isdigit(number) \/ matching = {} THEN "Unknown"
       ELSE BrandRules[CHOOSE i \in matching : \A j \in matching : i <= j].brand

\* C20: detect_card_brand returns, for every card number, the brand of the
\* first matching rule in the order Visa, Mastercard, American Express,
\* Discover, JCB, Diners Club, and "Unknown" when no rule matches or the
\* number, spaces and dashes removed, is not all digits; 2223000048400011 is
\* Mastercard.
C20_BrandOfFirstMatchingRule ==
    (call.fn = "detect_card_brand" /\ call.ret /= <<>>) =>
        /\ call.ret[1].raised = ""
        /\ call.ret[1].value = ClaimedBrand(call.arg)
        /\ call.arg = Mastercard16 => call.ret[1].value = "Mastercard"

\* the digits a text shows, in order
DigitsShown(text) ==
    LET IsDigit(c) == c \in DigitChars IN SelectSeq(text, IsDigit)

\* the text shows no digit of the number except, at its end, digits among
\* the number's last four
OnlyLastFour(text, number) ==
    LET digits == DigitsShown(number)
        shown == DigitsShown(text)
    IN /\ Len(shown) <= 4
       /\ Len(shown) <= Len(digits)
       /\ shown = SubSeq(digits, Len(digits) - Len(shown) + 1, Len(digits))

\* C21: every card record process_credit_cards_for_device commits to the
\* store shows the card number only masked: neither persisted field made
\* from the number contains a digit of it other than its last four.
C21_OnlyMaskedNumberPersisted ==
    (call.fn = "process_credit_cards_for_device" /\ call.ret /= <<>>) =>
        \A i \in 1..Len(call.ret[1].value.committed) :
            LET record == call.ret[1].value.committed[i] IN
            /\ OnlyLastFour(record.card_number_masked, call.arg[i])
            /\ OnlyLastFour(record.card_number, call.arg[i])

\* the mnemonics, private keys and addresses a set of wallets holds
WalletArtifacts(wallets) ==
    { w.mnemonic : w \in wallets } \cup { w.private_key : w \in wallets }
    \cup { w.address : w \in wallets }

\* C22: parse_wallet_file returns the union of the structured key:value
\* strategy and the pattern-scan strategy: every artifact either strategy
\* finds in the content is in the result, also when the other found some.
C22_UnionOfStrategies ==
    (call.fn = "parse_wallet_file" /\ call.ret /= <<>>) =>
        /\ WalletArtifacts(_parse_structured_format(call.arg))
              \subseteq WalletArtifacts(call.ret[1].value)
        /\ WalletArtifacts(_parse_by_patterns(call.arg))
              \subseteq WalletArtifacts(call.ret[1].value)

\* the label detectable for a device: the system file's, or failing that
\* the one the keyword table gives the archive filename
DetectableLabel(device) ==
    IF device.system_files /= <<>> /\ device.system_files[1].stealer_name /= ""
    THEN device.system_files[1].stealer_name
    ELSE extract_stealer_name(device.zip_filename)

\* C23: every credential of a device carries the device's stealer-family
\* label whenever one is detectable from the system file or, failing that,
\* from the archive filename; all credentials of a device carry the same
\* label.
C23_CredentialsCarryLabel ==
    (call.fn = "_process_device" /\ call.ret /= <<>>) =>
        LET credentials == call.ret[1].value IN
        /\ \A i, j \in 1..Len(credentials) :
              credentials[i].stealer_name = credentials[j].stealer_name
        /\ DetectableLabel(call.arg) /= "" =>
              \A i \in 1..Len(credentials) :
                  credentials[i].stealer_name = DetectableLabel(call.arg)

\* the store holds a Device row with the hash of the group the run is at
HashInStore(r) ==
    \E id \in DOMAIN devices :
        devices[id].device_name_hash = compute_device_hash(CurGroup(r).name)

\* C24: when the hash of the device a run comes to is already in the store,
\* process_zip_file skips it: the Device row and its child records stay as
\* they are, no record is added, and _process_device, which reads the
\* device's files, is not entered.
C24_KnownDeviceUntouched ==
    [][\A w \in Workers :
          LET r == run[w] IN
          (r.pc = "loop" /\ r.i <= Len(r.device_map) /\ HashInStore(r)
             /\ run'[w] /= r)
          => /\ run'[w] = [r EXCEPT !.devices_skipped = @ + 1, !.i = @ + 1]
             /\ devices' = devices
             /\ rows' = rows]_vars

\* the labels of the URL's host, lower-cased, without a leading www
HostLabels(u) ==
    LET labels == Labels(Lower(u.host)) IN
    IF Len(labels) > 1 /\ labels[1] = "www" THEN Tail(labels) ELSE labels

\* C25: _extract_url_info, scheme and a leading www. stripped: a host of at
\* least two labels gives TLD = last label and domain = last two labels
\* joined by ".", lower-cased; a bare IPv4 host gives the IP as domain and
\* no TLD.
C25_DomainDerivation ==
    (call.fn = "_extract_url_info" /\ call.ret /= <<>>) =>
        LET u == call.arg
            info == call.ret[1].value
            labels == HostLabels(u)
        IN /\ u.host \in IPv4Hosts =>
                info.domain = u.host /\ info.tld = <<>>
           /\ (u.host \in NamedHosts /\ Len(labels) >= 2) =>
                /\ info.tld = <<labels[Len(labels)]>>
                /\ info.domain =
                     <<labels[Len(labels) - 1], ".", labels[Len(labels)]>>

\* the archive repeats a device folder
RepeatsFolder(zip_path) ==
    \E i, j \in DOMAIN Archives[zip_path].groups :
        /\ i /= j
        /\ compute_device_hash(Archives[zip_path].groups[i].name)
             = compute_device_hash(Archives[zip_path].groups[j].name)

\* C26: within one run, two device folders of the archive with the same
\* device hash are one device: the run has one group for the hash, holding
\* the files of both folders, so it inserts the device at most once, and
\* an insert that is refused is never of a device this run committed.
C26_RepeatedDeviceOnce ==
    \A w \in Workers :
        LET r == run[w] IN
        /\ \A i, j \in DOMAIN r.device_map :
              compute_device_hash(r.device_map[i].name)
                = compute_device_hash(r.device_map[j].name) => i = j
        /\ (r.pc = "raised" /\ r.error = "IntegrityError") =>
              devices[DeviceId(compute_device_hash(CurGroup(r).name))].upload_batch
                /= r.upload_batch
        /\ (r.pc = "done" /\ RepeatsFolder(r.zip_path)) =>
              \A k \in DOMAIN Archives[r.zip_path].groups :
                  DeviceId(compute_device_hash(Archives[r.zip_path].groups[k].name))
                    \in DOMAIN devices

\* a run on the archive with the repeated folder completed and committed
\* the device once, with the files of both folders
C26_Witness ==
    \E w \in Workers :
        /\ run[w].pc = "done"
        /\ RepeatsFolder(run[w].zip_path)
        /\ run[w].devices_processed = 1
        /\ \E id \in DOMAIN devices :
              /\ devices[id].upload_batch = run[w].upload_batch
              /\ devices[id].total_files = 2

\* committed child rows of one table that reference device id
RowsOf(id, table) == {x \in rows : x.device_id = id /\ x.table = table}

\* C27: in every store state each committed child row references a committed
\* Device row, and each committed Device row has all the child records that
\* _process_device assembled for it (as many credential rows and file rows
\* as the Device row itself records): device and children become durable in
\* one per-device transaction or not at all, also after a device failed and
\* the except-branch of process_zip_file called db.commit().
C27_DeviceAndChildrenAtomic ==
    /\ \A x \in rows : x.device_id \in DOMAIN devices
    /\ \A id \in DOMAIN devices :
          /\ Cardinality(RowsOf(id, "credentials")) = devices[id].total_credentials
          /\ Cardinality(RowsOf(id, "files")) = devices[id].total_files

\* a run committed a device with its children, then failed on a later
\* device and went through the except-branch
C27_Witness ==
    \E w \in Workers :
        /\ DeviceFailure(run[w])
        /\ \E id \in BatchDevices(run[w].upload_batch) :
              RowsOf(id, "credentials") /= {} /\ RowsOf(id, "files") /= {}

\* an extract_with_password attempt on digest h is between marking the
\* record (line 341) and the return of the extractor
InFlight(h) ==
    \E t \in Threads :
        /\ thread[t].file_hash = h
        /\ \/ thread[t].pc = "extracting"
           \/ thread[t].pc = "write" /\ thread[t].next = "extracting"

\* C28: a record of the pending set has status 'processing' only while an
\* extract_with_password attempt on it is in flight; with no attempt in
\* flight, also after a crash in mid-attempt and the reload of the file,
\* every record is 'pending'.
C28_ProcessingOnlyInFlight ==
    \A h \in DOMAIN pending_archives :
        pending_archives[h].status = "processing" => InFlight(h)

\* C29: on every batch record with status 'completed', devices_processed +
\* devices_skipped = devices_found, and devices_processed is the number of
\* Device rows of the store whose upload_batch is the batch's id.
C29_CompletedCountsAddUp ==
    \A b \in DOMAIN uploads :
        uploads[b].status = "completed" =>
            /\ uploads[b].devices_processed + uploads[b].devices_skipped
                 = uploads[b].devices_found
            /\ uploads[b].devices_processed = Cardinality(BatchDevices(b))

\* a completed batch that both processed and skipped devices
C29_Witness ==
    \E b \in DOMAIN uploads :
        /\ uploads[b].status = "completed"
        /\ uploads[b].devices_processed >= 1
        /\ uploads[b].devices_skipped >= 1
        /\ BatchDevices(b) /= {}

\* C30: extract_with_password called with a digest that is not in the
\* pending set returns a failure result and changes nothing: the pending
\* set with its attempt counters, the common-password list and the
\* persisted file are as before the call.
C30_UnknownDigestChangesNothing ==
    [][(/\ lastOp'.seq /= lastOp.seq
        /\ lastOp'.op = "extract"
        /\ lastOp'.file_hash \notin DOMAIN pending_archives)
       => /\ ~lastOp'.result.success
          /\ pending_archives' = pending_archives
          /\ common_passwords' = common_passwords
          /\ pending_file' = pending_file]_vars

\* extract_with_password has answered 'Archive not found' while other
\* archives are pending
C30_Witness ==
    /\ lastOp.op = "extract"
    /\ lastOp.result.message = "Archive not found"
    /\ lastOp.file_hash \notin DOMAIN pending_archives
    /\ \E h \in DOMAIN pending_archives : pending_archives[h].attempts >= 1

====
